---- MODULE Spec2Model ----
(***************************************************************************)
(* Model of the suffix-cache engine of specRL:                             *)
(*   - RolloutCacheServiceImpl::UpdateCache (rollout_cache_server.cc):     *)
(*     builds a SuffixTree in the shared segment and publishes it in the   *)
(*     prompt_hash -> tree registry under the interprocess mutex;          *)
(*   - SuffixCache (suffix_cache.cc): the per-request query state          *)
(*     (req_id_to_responses_, req_id_to_spec_len_) and its four operations;*)
(*   - SuffixTree (suffix_tree.cc): Ukkonen construction, counts, pattern  *)
(*     matching and speculation.                                           *)
(* Spec      : UpdateCache threads interleaved with one SuffixCache client.*)
(* SpecQuery : one UpdateCache thread and a client using every operation.  *)
(* SpecTree  : one tree built from a request and then queried.             *)
(***************************************************************************)
EXTENDS Integers, Sequences, FiniteSets, TLC

\* ------------------------------------------------------------------ bounds
\* Number of UpdateCache calls (trees constructed) in one run of Spec.
MaxTrees == 3
\* Number of UpdateCache calls in one run of SpecQuery.
MaxQueryTrees == 1
\* Requests of one update call of the fan-out client.
MaxUpdateRequests == 2
\* Tokens of a bounded request of SpecTree (prompt, responses, terminators).
MaxRequestTokens == 5
\* Tokens of a prompt handed to the update client (prompt.size()).
MaxPromptSize == 2
\* Calls of update_response_cache in one run of SpecUpload.
MaxUpdateCalls == 2
\* Tokens of the token strings every built tree of SpecTree is probed with.
MaxProbeLen == 3
\* the calls of Initialize and Shutdown in the lifetime of one server
MaxServerCalls == 3
\* Tokens of the vectors extend_from_local is called with in SpecLocal.
MaxLocalTokens == 6

\* ------------------------------------------------------- program constants
SPEC_START_LEN == 2
SPEC_MAX_LEN == 16
prefix_tokens_to_include == 5
\* the token UpdateCache puts after the prompt and after every response
Terminator == -1

\* ------------------------------------------------------------- small sets
Updaters == {1, 2}
Prompts == {1, 2}
Reqs == {1, 2}
ValidLens == {1, 4, 5, 10, 17}
\* nullptr (a SuffixTree* / offset that refers to no tree)
Null == 0
\* the client of the SuffixCache object as a holder of the mutex
Client == 9
\* stubs_ of the SuffixCacheUpdater: the endpoints by their server_index
stubs_ == {0, 1}
\* the names in shared memory: SHARED_MEMORY_NAME and the objects in the segment
Segment == "SUFFIX_CACHE"
NamedObjects == {"mutex", "tree_map"}

\* XXH64(prompt.data(), ...): a prompt is identified by its token vector, the
\* hash is a different value of a different type (uint64_t key of the registry).
XXH64(p) == 100 + p
Hashes == {XXH64(p) : p \in Prompts}

VARIABLES
    \* ---- shared segment
    tree_map,       \* SharedTreeMap: prompt_hash -> tree (function, partial domain)
    treeState,      \* per tree: "free" | "constructed" | "built" | "destroyed",
                    \* "unbuilt" when the allocation in extend() has thrown
    mutex,          \* holder of the interprocess_mutex "mutex", 0 when free
    segment_,       \* TRUE while the server has its segment and serves, FALSE
                    \* (nullptr) before Initialize and once Shutdown has removed it
    shm,            \* what exists in shared memory: the segment by its name,
                    \* and the named objects "mutex" and "tree_map" inside it
    \* ---- UpdateCache, per handler thread
    upc,            \* position in UpdateCache
    utree,          \* `tree`
    uhash,          \* request->prompt_hash()
    uexisting,      \* `existing_tree_ptr`
    \* ---- history of the server (written, never read by the actions)
    published,      \* [tree, hash] in the order the trees were put into the registry
    returned,       \* trees whose UpdateCache call has returned
    response,       \* tree -> how its call ended: "none" | "success" | "exception"
    replacedBy,     \* tree -> the tree whose call took it out of the registry
    destroyedBy,    \* tree -> sequence of calls (by their tree) that destroyed it
    lockedDestroy,  \* a destroy_ptr ran while its thread held the mutex
    \* ---- SuffixCache (one client process)
    shared_memory_segment_,  \* FALSE for nullptr
    shared_tree_map_,        \* FALSE for nullptr
    req_id_to_responses_,
    req_id_to_spec_len_,
    qpc,            \* position of the client: "idle" | "fetch_lock" | "fetch_locked",
                    \* "none" before the SuffixCache is constructed, "threw"
                    \* when its constructor has thrown, "crashed"
    fetch_req_ids,  \* req_ids[idx] for idx in indices_to_process
    req_hashes,     \* req_hashes
    last,           \* the last completed SuffixCache operation and its outcome
    \* ---- one SuffixTree, from its UpdateCache request to its queries
    request,        \* the UpdateCacheRequest: [prompt, responses]
    tokens,         \* `tokens` of UpdateCache
    seqs,           \* _seqs.at(0)
    nodes,          \* the Node objects, <<>> while _root is null
    ukkonen_state,  \* _ukkonen_states.at(0)
    tpc,            \* "idle" | "request" | "extend" | "count" | "built" | "destroyed"
    arena,          \* the allocations of the segment that this tree holds
    spec,           \* the last SuffixTree::speculate call and its Candidate
    \* ---- SuffixCacheUpdater (the fan-out client), one update call
    fpc,            \* "idle" | "start" | "wait" | "returned"
    requests_size,  \* requests.size()
    call_data_list, \* the AsyncCallData of the calls started, in order
    cq,             \* tags (places in call_data_list) of the finished calls
                    \* that cq.Next has not handed out yet
    completed,      \* `completed` of the waiting loop
    logged,         \* tags of the calls reported on std::cerr
    received,       \* <<server_index, request_index>> -> number of UpdateCache
                    \* requests that have arrived at that endpoint
    live,           \* the endpoints that are up
    \* ---- SuffixCacheUpdater, across its update calls
    prompt_hash_to_uploaded_len_,  \* prompt_hash -> uploaded length (partial domain)
    uploads,        \* history: the requests prepared by the update calls so
                    \* far, in order, each with the input it was made from
    \* ---- RolloutCacheServer, its lifetime
    server_calls,   \* history: the calls of Initialize and Shutdown made so
                    \* far, in order, each with how it ended
    \* ---- SuffixTree::extend_from_local
    local_tree      \* the LocalSuffixTree of the call: its nodes, its Ukkonen
                    \* state, and what the build has done to freed or null
                    \* pointers so far

vars == <<tree_map, treeState, mutex, segment_, shm, shared_memory_segment_,
          shared_tree_map_, upc, utree, uhash, uexisting,
          published, returned, response, replacedBy, destroyedBy, lockedDestroy,
          req_id_to_responses_, req_id_to_spec_len_, qpc, fetch_req_ids,
          req_hashes, last,
          request, tokens, seqs, nodes, ukkonen_state, tpc, arena, spec,
          fpc, requests_size, call_data_list, cq, completed, logged, received,
          live, prompt_hash_to_uploaded_len_, uploads, server_calls, local_tree>>

serverVars == <<tree_map, treeState, segment_, shm, upc, utree, uhash, uexisting,
                published, returned, response, replacedBy, destroyedBy, lockedDestroy>>
clientVars == <<shared_memory_segment_, shared_tree_map_, req_id_to_responses_, req_id_to_spec_len_, qpc, fetch_req_ids,
                req_hashes, last>>
treeVars == <<request, tokens, seqs, nodes, ukkonen_state, tpc, arena, spec>>
fanoutVars == <<fpc, requests_size, call_data_list, cq, completed, logged,
                received, live>>
uploadVars == <<prompt_hash_to_uploaded_len_, uploads>>
lifeVars == <<server_calls>>
localVars == <<local_tree>>

\* ----------------------------------------------------------------- helpers
Min(a, b) == IF a < b THEN a ELSE b
Max(a, b) == IF a > b THEN a ELSE b

\* std::map / unordered_map as a function with a partial domain
MapPut(m, k, v) == [x \in DOMAIN m \cup {k} |-> IF x = k THEN v ELSE m[x]]
MapErase(m, k) == [x \in DOMAIN m \ {k} |-> m[x]]

\* tree_map_->find(h): the tree of the entry, Null for end()
Lookup(map, h) == IF h \in DOMAIN map THEN map[h] ELSE Null

\* ------------------------------------------------------------ UpdateCache
\* SwapEntry without the assignment to it->second (emplace never overwrites)
SwapEntry_KeepOld(map, h, tree) == map

\* lines 76-81: `it->second = tree_ptr` when the key is present
SwapEntry(map, h, tree) == IF h \in DOMAIN map THEN MapPut(map, h, tree) ELSE map

\* ExistingTree that forgets the replaced tree (it is never destroyed)
ExistingTree_Forget(map, h) == Null

\* lines 76-80: existing_tree_ptr
ExistingTree(map, h) == Lookup(map, h)

\* line 82: tree_map_->emplace(prompt_hash, tree_ptr) inserts only a new key
Emplace(map, h, tree) == IF h \in DOMAIN map THEN map ELSE MapPut(map, h, tree)

\* DestroyTarget that frees the tree just published
DestroyTarget_New(existing, tree) == tree

\* lines 85-87: the tree handed to destroy_ptr, Null for none
DestroyTarget(existing, tree) == existing

\* AfterConstruct that takes the lock before the tree is extended
AfterConstruct_LockFirst == "lock"

\* line 67: tree->extend(0, tokens) comes before the mutex is taken
AfterConstruct == "extend"

TreeIds == DOMAIN treeState
FreeTrees == {T \in TreeIds : treeState[T] = "free"}

\* lines 31-32: segment_->construct<SuffixTree>(anonymous_instance)(alloc)
UpdateCache_construct(t, h) ==
    /\ segment_ /\ "tree_map" \in shm      \* Start(): lines 139-142
    /\ upc[t] = "idle"
    /\ FreeTrees # {}
    /\ LET T == CHOOSE x \in FreeTrees : \A y \in FreeTrees : x <= y
       IN /\ treeState' = [treeState EXCEPT ![T] = "constructed"]
          /\ utree' = [utree EXCEPT ![t] = T]
    /\ uhash' = [uhash EXCEPT ![t] = h]
    /\ uexisting' = [uexisting EXCEPT ![t] = Null]
    /\ upc' = [upc EXCEPT ![t] = AfterConstruct]
    /\ UNCHANGED <<tree_map, mutex, published, returned, response, replacedBy,
                   destroyedBy, lockedDestroy>>
    /\ UNCHANGED <<segment_, shm, clientVars, treeVars, fanoutVars, uploadVars, lifeVars, localVars>>

\* suffix_tree.cc line 603, s_manager->allocate(total_size), throws
\* boost::interprocess::bad_alloc when the segment has no block of that size.
\* Neither extend() nor UpdateCache catches it: the handler is left by the
\* exception at line 67, before response->set_success is reached.
AllocationFailed == "exception"

\* lines 34-67: the composite token stream and tree->extend(0, tokens), whose
\* bulk allocation (suffix_tree.cc lines 65, 590-605) succeeds or fails
UpdateCache_extend(t) ==
    /\ upc[t] = "extend"
    /\ \E allocated \in BOOLEAN :
          IF allocated
          THEN /\ treeState' = [treeState EXCEPT ![utree[t]] = "built"]
               /\ upc' = [upc EXCEPT ![t] = "lock"]
               /\ UNCHANGED response
          ELSE /\ treeState' = [treeState EXCEPT ![utree[t]] = "unbuilt"]
               /\ upc' = [upc EXCEPT ![t] = "idle"]
               /\ response' = [response EXCEPT ![utree[t]] = AllocationFailed]
    /\ UNCHANGED <<tree_map, mutex, utree, uhash, uexisting, published,
                   returned, replacedBy, destroyedBy, lockedDestroy>>
    /\ UNCHANGED <<segment_, shm, clientVars, treeVars, fanoutVars, uploadVars, lifeVars, localVars>>

\* UpdateCache_lock that does not wait for the mutex to be free
UpdateCache_lock_NoWait(t) ==
    /\ upc[t] = "lock"
    /\ mutex' = t
    /\ upc' = [upc EXCEPT ![t] = "swap"]
    /\ UNCHANGED <<tree_map, treeState, utree, uhash, uexisting, published,
                   returned, response, replacedBy, destroyedBy, lockedDestroy>>
    /\ UNCHANGED <<segment_, shm, clientVars, treeVars, fanoutVars, uploadVars, lifeVars, localVars>>

\* line 72: scoped_lock<interprocess_mutex> shm_lock(*mutex)
UpdateCache_lock(t) ==
    /\ upc[t] = "lock"
    /\ mutex = 0
    /\ mutex' = t
    /\ upc' = [upc EXCEPT ![t] = "swap"]
    /\ UNCHANGED <<tree_map, treeState, utree, uhash, uexisting, published,
                   returned, response, replacedBy, destroyedBy, lockedDestroy>>
    /\ UNCHANGED <<segment_, shm, clientVars, treeVars, fanoutVars, uploadVars, lifeVars, localVars>>

\* lines 73-81: find, and replace the entry when there is one
UpdateCache_swap(t) ==
    /\ upc[t] = "swap"
    /\ LET old == ExistingTree(tree_map, uhash[t])
       IN /\ uexisting' = [uexisting EXCEPT ![t] = old]
          /\ tree_map' = SwapEntry(tree_map, uhash[t], utree[t])
          /\ replacedBy' = IF old # Null /\ tree_map'[uhash[t]] # old
                           THEN [replacedBy EXCEPT ![old] = utree[t]]
                           ELSE replacedBy
    /\ published' = IF Lookup(tree_map', uhash[t]) = utree[t]
                    THEN Append(published, [tree |-> utree[t], hash |-> uhash[t]])
                    ELSE published
    /\ upc' = [upc EXCEPT ![t] = "emplace"]
    /\ UNCHANGED <<treeState, mutex, utree, uhash, returned, response,
                   destroyedBy, lockedDestroy>>
    /\ UNCHANGED <<segment_, shm, clientVars, treeVars, fanoutVars, uploadVars, lifeVars, localVars>>

\* lines 82-83: emplace, then the scope ends and shm_lock releases the mutex
UpdateCache_emplace(t) ==
    /\ upc[t] = "emplace"
    /\ tree_map' = Emplace(tree_map, uhash[t], utree[t])
    /\ published' = IF /\ Lookup(tree_map', uhash[t]) = utree[t]
                       /\ Lookup(tree_map, uhash[t]) # utree[t]
                    THEN Append(published, [tree |-> utree[t], hash |-> uhash[t]])
                    ELSE published
    /\ mutex' = 0
    /\ upc' = [upc EXCEPT ![t] = "destroy"]
    /\ UNCHANGED <<treeState, utree, uhash, uexisting, returned, response, replacedBy,
                   destroyedBy, lockedDestroy>>
    /\ UNCHANGED <<segment_, shm, clientVars, treeVars, fanoutVars, uploadVars, lifeVars, localVars>>

\* lines 85-87: segment_->destroy_ptr(existing_tree_ptr)
UpdateCache_destroy(t) ==
    /\ upc[t] = "destroy"
    /\ LET T == DestroyTarget(uexisting[t], utree[t])
       IN IF T # Null
          THEN /\ treeState' = [treeState EXCEPT ![T] = "destroyed"]
               /\ destroyedBy' = [destroyedBy EXCEPT
                                    ![T] = Append(@, utree[t])]
               /\ lockedDestroy' = (lockedDestroy \/ mutex = t)
          ELSE UNCHANGED <<treeState, destroyedBy, lockedDestroy>>
    /\ upc' = [upc EXCEPT ![t] = "respond"]
    /\ UNCHANGED <<tree_map, mutex, utree, uhash, uexisting, published,
                   returned, response, replacedBy>>
    /\ UNCHANGED <<segment_, shm, clientVars, treeVars, fanoutVars, uploadVars, lifeVars, localVars>>

\* lines 88-90: response->set_success(true); return grpc::Status::OK
UpdateCache_return(t) ==
    /\ upc[t] = "respond"
    /\ returned' = returned \cup {utree[t]}
    /\ response' = [response EXCEPT ![utree[t]] = "success"]
    /\ upc' = [upc EXCEPT ![t] = "idle"]
    /\ UNCHANGED <<tree_map, treeState, mutex, utree, uhash, uexisting,
                   published, replacedBy, destroyedBy, lockedDestroy>>
    /\ UNCHANGED <<segment_, shm, clientVars, treeVars, fanoutVars, uploadVars, lifeVars, localVars>>

\* rollout_cache_server.cc lines 102-135, Initialize, in the three steps
\* another process can see between: the segment is created (lines 105-108),
\* the mutex is constructed in it (line 111), the registry is constructed in
\* it and the service is made (lines 114-120)
Initialize_segment ==
    /\ ~segment_
    /\ shm' = {Segment}
    /\ segment_' = TRUE
    /\ UNCHANGED <<tree_map, treeState, mutex, upc, utree, uhash, uexisting,
                   published, returned, response, replacedBy, destroyedBy,
                   lockedDestroy>>
    /\ UNCHANGED <<clientVars, treeVars, fanoutVars, uploadVars, lifeVars, localVars>>

Initialize_mutex ==
    /\ segment_ /\ shm = {Segment}
    /\ shm' = {Segment, "mutex"}
    /\ mutex' = 0
    /\ UNCHANGED <<tree_map, treeState, segment_, upc, utree, uhash, uexisting,
                   published, returned, response, replacedBy, destroyedBy,
                   lockedDestroy>>
    /\ UNCHANGED <<clientVars, treeVars, fanoutVars, uploadVars, lifeVars, localVars>>

Initialize_tree_map ==
    /\ segment_ /\ shm = {Segment, "mutex"}
    /\ shm' = {Segment} \cup NamedObjects
    /\ tree_map' = <<>>
    /\ UNCHANGED <<treeState, mutex, segment_, upc, utree, uhash, uexisting,
                   published, returned, response, replacedBy, destroyedBy,
                   lockedDestroy>>
    /\ UNCHANGED <<clientVars, treeVars, fanoutVars, uploadVars, lifeVars, localVars>>

\* DrainTargets that leaves the trees of the registry alone
DrainTargets_None(map) == {}

\* lines 194-197: the trees `for (auto& pair : *tree_map_)` hands to destroy_ptr
DrainTargets(map) == {map[h] : h \in DOMAIN map}

\* the caller of the destroy_ptr calls of Shutdown, as an entry of destroyedBy
Drain == -1

\* lines 178-212. server_->Shutdown() and server_->Wait() return when no
\* handler is running any more; then every tree of the registry is destroyed
\* and the registry, the mutex and the segment are removed.
Shutdown ==
    /\ segment_ /\ "tree_map" \in shm
    /\ \A t \in DOMAIN upc : upc[t] = "idle"
    /\ treeState' = [T \in DOMAIN treeState |->
                        IF T \in DrainTargets(tree_map) THEN "destroyed"
                        ELSE treeState[T]]
    /\ destroyedBy' = [T \in DOMAIN destroyedBy |->
                          IF T \in DrainTargets(tree_map)
                          THEN Append(destroyedBy[T], Drain)
                          ELSE destroyedBy[T]]
    /\ tree_map' = <<>>
    /\ mutex' = 0
    /\ segment_' = FALSE
    /\ shm' = {}
    /\ server_calls' = Append(server_calls, "Shutdown")
    /\ UNCHANGED <<upc, utree, uhash, uexisting, published, returned, response,
                   replacedBy, lockedDestroy>>
    /\ UNCHANGED <<clientVars, treeVars, fanoutVars, uploadVars, localVars>>

\* line 191, segment_->get_address(), with segment_ == nullptr reads a member
\* through a null pointer before the test of line 193: the process crashes
\* there, or the read is of no consequence (segment_base is used inside the
\* `if (segment_)` block only) and the call returns without doing anything
NullSegmentBaseOutcomes == {"crash", "returned"}

\* whether the server process is still running
ServerRunning ==
    \A i \in DOMAIN server_calls : server_calls[i] # "Shutdown: crash"

\* lines 178-212 when segment_ is null: the server was never initialized,
\* Initialize has failed (segment_ is null from the constructor or from line
\* 130), or Shutdown has run before (line 206); the destructor (lines 97-99)
\* is such a call. server_ and service_ are null (lines 179-189 do nothing),
\* line 191 calls get_address() through the null segment_.
Shutdown_null_segment ==
    /\ ~segment_
    /\ ServerRunning
    /\ Len(server_calls) < MaxServerCalls
    /\ \E outcome \in NullSegmentBaseOutcomes :
          server_calls' = Append(server_calls, "Shutdown: " \o outcome)
    /\ UNCHANGED <<serverVars, mutex, clientVars, treeVars, fanoutVars,
                   uploadVars, localVars>>

\* lines 102-125, Initialize as one step, when nothing throws
Initialize ==
    /\ ~segment_
    /\ ServerRunning
    /\ Len(server_calls) < MaxServerCalls
    /\ shm' = {Segment} \cup NamedObjects
    /\ segment_' = TRUE
    /\ mutex' = 0
    /\ tree_map' = <<>>
    /\ server_calls' = Append(server_calls, "Initialize")
    /\ UNCHANGED <<treeState, upc, utree, uhash, uexisting, published, returned,
                   response, replacedBy, destroyedBy, lockedDestroy>>
    /\ UNCHANGED <<clientVars, treeVars, fanoutVars, uploadVars, localVars>>

\* lines 102-135 when line 108, 111, 117 or 120 throws (the segment cannot be
\* created or is too small): the handler at lines 126-134 deletes the segment
\* object if there is one, sets segment_ = nullptr, removes the name and
\* returns false
Initialize_failed ==
    /\ ~segment_
    /\ ServerRunning
    /\ Len(server_calls) < MaxServerCalls
    /\ shm' = {}
    /\ segment_' = FALSE
    /\ server_calls' = Append(server_calls, "Initialize: failed")
    /\ UNCHANGED <<tree_map, treeState, mutex, upc, utree, uhash, uexisting,
                   published, returned, response, replacedBy, destroyedBy,
                   lockedDestroy>>
    /\ UNCHANGED <<clientVars, treeVars, fanoutVars, uploadVars, localVars>>

UpdateCache(t) ==
    \/ \E h \in Hashes : UpdateCache_construct(t, h)
    \/ UpdateCache_extend(t)
    \/ UpdateCache_lock(t)
    \/ UpdateCache_swap(t)
    \/ UpdateCache_emplace(t)
    \/ UpdateCache_destroy(t)
    \/ UpdateCache_return(t)

\* ------------------------------------------------------------ SuffixCache
\* FirstPass that takes every request of the batch as new
RECURSIVE FirstPass_All(_, _, _, _, _, _)
FirstPass_All(req_ids, prompts, i, spec_len, ids, hashes) ==
    IF i > Len(req_ids) THEN <<spec_len, ids, hashes>>
    ELSE FirstPass_All(req_ids, prompts, i + 1,
                       MapPut(spec_len, req_ids[i], SPEC_START_LEN),
                       Append(ids, req_ids[i]),
                       Append(hashes, XXH64(prompts[i])))

\* lines 97-108: the first pass over the batch, from index i on. Returns
\* <<req_id_to_spec_len_, req ids of indices_to_process, req_hashes>>.
RECURSIVE FirstPass(_, _, _, _, _, _)
FirstPass(req_ids, prompts, i, spec_len, ids, hashes) ==
    IF i > Len(req_ids) THEN <<spec_len, ids, hashes>>
    ELSE IF req_ids[i] \notin DOMAIN req_id_to_responses_
         THEN FirstPass(req_ids, prompts, i + 1,
                        MapPut(spec_len, req_ids[i], SPEC_START_LEN),
                        Append(ids, req_ids[i]),
                        Append(hashes, XXH64(prompts[i])))
         ELSE FirstPass(req_ids, prompts, i + 1, spec_len, ids, hashes)

\* lines 118-129: the lookups of indices_to_process, from position i on
RECURSIVE SecondPass(_, _, _, _)
SecondPass(ids, hashes, i, responses) ==
    IF i > Len(ids) THEN responses
    ELSE SecondPass(ids, hashes, i + 1,
                    MapPut(responses, ids[i], Lookup(tree_map, hashes[i])))

\* what the previous operation left for a fetch of req_ids to be compared
\* with: <<req_id, its spec_len before>> when an evict_responses of one of
\* req_ids came right before, <<0, 0>> otherwise
Evicted(req_ids) ==
    IF last.op = "evict_responses" /\ \E i \in DOMAIN req_ids : req_ids[i] = last.req_id
    THEN <<last.req_id, last.before>>
    ELSE <<0, 0>>

\* the requests of a batch
InBatch(req_ids) == {req_ids[i] : i \in DOMAIN req_ids}

\* the requests of a batch that already have an entry in req_id_to_responses_
\* when the fetch starts and whose entry differs from what the registry holds
\* for the prompt sent with them (recorded in `last` only)
Stale(req_ids, prompts) ==
    {req_ids[i] : i \in {j \in DOMAIN req_ids :
        /\ req_ids[j] \in DOMAIN req_id_to_responses_
        /\ req_id_to_responses_[req_ids[j]] # Lookup(tree_map, XXH64(prompts[j]))}}

\* a fetch whose size check sends a mismatched call on to the lock
fetch_responses_by_prompts_batch_NoReturn(req_ids, prompts) ==
    /\ qpc = "idle"
    /\ IF Len(req_ids) # Len(prompts)
       THEN /\ last' = [op |-> "fetch", status |-> "mismatch", pre |-> <<0, 0>>,
                        batch |-> {}, stale |-> {}]
            /\ fetch_req_ids' = <<>>
            /\ req_hashes' = <<>>
            /\ qpc' = "fetch_lock"
            /\ UNCHANGED req_id_to_spec_len_
       ELSE LET r == FirstPass(req_ids, prompts, 1, req_id_to_spec_len_, <<>>, <<>>)
            IN /\ req_id_to_spec_len_' = r[1]
               /\ fetch_req_ids' = r[2]
               /\ req_hashes' = r[3]
               /\ qpc' = "fetch_lock"
               /\ last' = [op |-> "fetch", status |-> "running",
                           pre |-> Evicted(req_ids),
                           batch |-> InBatch(req_ids),
                           stale |-> Stale(req_ids, prompts)]
    /\ UNCHANGED <<req_id_to_responses_, mutex>>
    /\ UNCHANGED <<serverVars, treeVars, shared_memory_segment_, shared_tree_map_, fanoutVars, uploadVars, lifeVars, localVars>>

\* lines 86-108: the size check and the first pass
fetch_responses_by_prompts_batch(req_ids, prompts) ==
    /\ qpc = "idle"
    /\ IF Len(req_ids) # Len(prompts)
       THEN /\ last' = [op |-> "fetch", status |-> "mismatch", pre |-> <<0, 0>>,
                        batch |-> {}, stale |-> {}]
            /\ UNCHANGED <<req_id_to_spec_len_, qpc, fetch_req_ids, req_hashes>>
       ELSE LET r == FirstPass(req_ids, prompts, 1, req_id_to_spec_len_, <<>>, <<>>)
            IN /\ req_id_to_spec_len_' = r[1]
               /\ fetch_req_ids' = r[2]
               /\ req_hashes' = r[3]
               /\ qpc' = "fetch_lock"
               /\ last' = [op |-> "fetch", status |-> "running",
                           pre |-> Evicted(req_ids),
                           batch |-> InBatch(req_ids),
                           stale |-> Stale(req_ids, prompts)]
    /\ UNCHANGED <<req_id_to_responses_, mutex>>
    /\ UNCHANGED <<serverVars, treeVars, shared_memory_segment_, shared_tree_map_, fanoutVars, uploadVars, lifeVars, localVars>>

\* suffix_cache.cc lines 57-77, the constructor of SuffixCache.
\* managed_shared_memory(open_only, ...) throws when there is no segment of
\* that name; when the segment has no "tree_map" the constructor logs it,
\* deletes its segment object, leaves both pointers null and returns.
SuffixCache_construct ==
    /\ qpc = "none"
    /\ IF Segment \notin shm
       THEN /\ qpc' = "threw"
            /\ UNCHANGED <<shared_memory_segment_, shared_tree_map_>>
       ELSE /\ shared_tree_map_' = ("tree_map" \in shm)
            /\ shared_memory_segment_' = shared_tree_map_'
            /\ qpc' = "idle"
    /\ UNCHANGED <<req_id_to_responses_, req_id_to_spec_len_, fetch_req_ids,
                   req_hashes, last, mutex>>
    /\ UNCHANGED <<serverVars, treeVars, fanoutVars, uploadVars, lifeVars, localVars>>

\* line 112, shared_memory_segment_->find<interprocess_mutex>("mutex"), with
\* shared_memory_segment_ == nullptr calls a member function through a null
\* pointer: the process crashes, or whatever else happens the call ends
\* without a lookup
NullSegmentOutcomes == {"crash", "undefined"}

\* lines 112-114: find the mutex through shared_memory_segment_, then
\* scoped_lock<interprocess_mutex> shm_lock(*mutex)
fetch_lock ==
    /\ qpc = "fetch_lock"
    /\ IF shared_memory_segment_
       THEN /\ mutex = 0
            /\ mutex' = Client
            /\ qpc' = "fetch_locked"
            /\ UNCHANGED last
       ELSE /\ \E outcome \in NullSegmentOutcomes :
                  /\ last' = [last EXCEPT !.status = outcome]
                  /\ qpc' = IF outcome = "crash" THEN "crashed" ELSE "idle"
            /\ UNCHANGED mutex
    /\ UNCHANGED <<req_id_to_responses_, req_id_to_spec_len_, fetch_req_ids,
                   req_hashes>>
    /\ UNCHANGED <<serverVars, treeVars, shared_memory_segment_, shared_tree_map_, fanoutVars, uploadVars, lifeVars, localVars>>

\* lines 116-130: the lookups, then the function returns and releases the mutex
fetch_lookups ==
    /\ qpc = "fetch_locked"
    /\ req_id_to_responses_' =
           SecondPass(fetch_req_ids, req_hashes, 1, req_id_to_responses_)
    /\ mutex' = 0
    /\ qpc' = "idle"
    /\ fetch_req_ids' = <<>>
    /\ req_hashes' = <<>>
    /\ last' = [last EXCEPT !.status = "done"]
    /\ UNCHANGED req_id_to_spec_len_
    /\ UNCHANGED <<serverVars, treeVars, shared_memory_segment_, shared_tree_map_, fanoutVars, uploadVars, lifeVars, localVars>>

\* NextSpecLen without the clamps
NextSpecLen_NoClamp(current_spec_len, valid_len) ==
    IF valid_len > current_spec_len
    THEN current_spec_len * 2
    ELSE current_spec_len \div 2

\* NextSpecLen that also doubles when valid_len = current_spec_len
NextSpecLen_Ge(current_spec_len, valid_len) ==
    IF valid_len >= current_spec_len
    THEN Min(current_spec_len * 2, SPEC_MAX_LEN)
    ELSE Max(SPEC_START_LEN, current_spec_len \div 2)

\* lines 141-145: the new speculation length
NextSpecLen(current_spec_len, valid_len) ==
    IF valid_len > current_spec_len
    THEN Min(current_spec_len * 2, SPEC_MAX_LEN)
    ELSE Max(SPEC_START_LEN, current_spec_len \div 2)

\* lines 132-146
update_spec_len(req_id, valid_len) ==
    /\ qpc = "idle"
    /\ IF req_id \notin DOMAIN req_id_to_spec_len_
       THEN /\ UNCHANGED req_id_to_spec_len_
            /\ last' = [op |-> "update_spec_len", status |-> "not found",
                        req_id |-> req_id, valid_len |-> valid_len]
       ELSE /\ req_id_to_spec_len_' =
                  MapPut(req_id_to_spec_len_, req_id,
                         NextSpecLen(req_id_to_spec_len_[req_id], valid_len))
            /\ last' = [op |-> "update_spec_len", status |-> "done",
                        req_id |-> req_id, valid_len |-> valid_len]
    /\ UNCHANGED <<req_id_to_responses_, qpc, fetch_req_ids, req_hashes, mutex>>
    /\ UNCHANGED <<serverVars, treeVars, shared_memory_segment_, shared_tree_map_, fanoutVars, uploadVars, lifeVars, localVars>>

\* evict_responses that erases the speculation length only
evict_responses_KeepTree(req_id) ==
    /\ qpc = "idle"
    /\ req_id_to_spec_len_' = MapErase(req_id_to_spec_len_, req_id)
    /\ last' = [op |-> "evict_responses", status |-> "done", req_id |-> req_id,
                before |-> IF req_id \in DOMAIN req_id_to_spec_len_
                           THEN req_id_to_spec_len_[req_id] ELSE 0]
    /\ UNCHANGED <<req_id_to_responses_, qpc, fetch_req_ids, req_hashes, mutex>>
    /\ UNCHANGED <<serverVars, treeVars, shared_memory_segment_, shared_tree_map_, fanoutVars, uploadVars, lifeVars, localVars>>

\* evict_responses that erases the cached tree_ref only
evict_responses_KeepSpecLen(req_id) ==
    /\ qpc = "idle"
    /\ req_id_to_responses_' = MapErase(req_id_to_responses_, req_id)
    /\ last' = [op |-> "evict_responses", status |-> "done", req_id |-> req_id,
                before |-> IF req_id \in DOMAIN req_id_to_spec_len_
                           THEN req_id_to_spec_len_[req_id] ELSE 0]
    /\ UNCHANGED <<req_id_to_spec_len_, qpc, fetch_req_ids, req_hashes, mutex>>
    /\ UNCHANGED <<serverVars, treeVars, shared_memory_segment_, shared_tree_map_, fanoutVars, uploadVars, lifeVars, localVars>>

\* lines 148-152
evict_responses(req_id) ==
    /\ qpc = "idle"
    /\ req_id_to_spec_len_' = MapErase(req_id_to_spec_len_, req_id)
    /\ req_id_to_responses_' = MapErase(req_id_to_responses_, req_id)
    /\ last' = [op |-> "evict_responses", status |-> "done", req_id |-> req_id,
                before |-> IF req_id \in DOMAIN req_id_to_spec_len_
                           THEN req_id_to_spec_len_[req_id] ELSE 0]
    /\ UNCHANGED <<qpc, fetch_req_ids, req_hashes, mutex>>
    /\ UNCHANGED <<serverVars, treeVars, shared_memory_segment_, shared_tree_map_, fanoutVars, uploadVars, lifeVars, localVars>>

\* SpeculateSlot that takes a null tree_ref for an error
SpeculateSlot_NullThrows(req_id, pattern) ==
    IF pattern = "" THEN [kind |-> "empty", tree |-> Null]
    ELSE IF req_id \notin DOMAIN req_id_to_responses_
         THEN [kind |-> "throw", tree |-> Null]
    ELSE IF req_id \notin DOMAIN req_id_to_spec_len_
         THEN [kind |-> "throw", tree |-> Null]
    ELSE LET suffix_tree == req_id_to_responses_[req_id]
         IN IF suffix_tree = Null THEN [kind |-> "throw", tree |-> Null]
            ELSE IF treeState[suffix_tree] = "destroyed"
                 THEN [kind |-> "uaf", tree |-> suffix_tree]
                 ELSE [kind |-> "spec", tree |-> suffix_tree]

\* lines 166-204: one iteration of the loop. A pattern is "" (empty) or "p".
\* The outcome of the slot: "throw", or the slot of `results`:
\*   [kind |-> "empty"]            the slot keeps the empty vector
\*   [kind |-> "spec", tree |-> T] candidate.token_ids of SuffixTree T
\*   [kind |-> "uaf",  tree |-> T] the call ran on the destroyed tree T
SpeculateSlot(req_id, pattern) ==
    IF pattern = "" THEN [kind |-> "empty", tree |-> Null]
    ELSE IF req_id \notin DOMAIN req_id_to_responses_
         THEN [kind |-> "throw", tree |-> Null]
    ELSE IF req_id \notin DOMAIN req_id_to_spec_len_
         THEN [kind |-> "throw", tree |-> Null]
    ELSE LET suffix_tree == req_id_to_responses_[req_id]
         IN IF suffix_tree = Null THEN [kind |-> "empty", tree |-> Null]
            ELSE IF treeState[suffix_tree] = "destroyed"
                 THEN [kind |-> "uaf", tree |-> suffix_tree]
                 ELSE [kind |-> "spec", tree |-> suffix_tree]

\* How a call with these slots can end. An exception leaving the OpenMP loop
\* either reaches the caller or terminates the process; a call on a destroyed
\* tree is undefined and may crash or return.
SpeculateStatus(slots) ==
    IF \E i \in DOMAIN slots : slots[i].kind = "throw"
    THEN {"exception", "terminate"}
    ELSE IF \E i \in DOMAIN slots : slots[i].kind = "uaf"
         THEN {"returned", "crash"}
         ELSE {"returned"}

\* lines 154-221
speculate(req_ids, patterns) ==
    /\ qpc = "idle"
    /\ Len(req_ids) = Len(patterns)        \* line 161: assert
    /\ LET slots == [i \in DOMAIN req_ids |-> SpeculateSlot(req_ids[i], patterns[i])]
       IN \E st \in SpeculateStatus(slots) :
            last' = [op |-> "speculate", status |-> st, req_ids |-> req_ids,
                     patterns |-> patterns, slots |-> slots,
                     results |-> IF st = "returned" THEN slots ELSE <<>>]
    /\ UNCHANGED <<req_id_to_responses_, req_id_to_spec_len_, qpc,
                   fetch_req_ids, req_hashes, mutex>>
    /\ UNCHANGED <<serverVars, treeVars, shared_memory_segment_, shared_tree_map_, fanoutVars, uploadVars, lifeVars, localVars>>

\* ------------------------------------------------------ SuffixCacheUpdater
\* suffix_cache_updater.cc. update_prompt_cache (lines 123-182) and
\* update_response_cache (lines 245-304) send their requests in the same way.

\* total_calls that counts the requests only
total_calls_PerRequest(n) == n

\* lines 159 and 282: size_t total_calls = requests.size() * stubs_.size()
total_calls(n) == n * Cardinality(stubs_)

\* lines 138-139 and 262-263: the two nested loops start one call for every
\* request_index (outer) and server_index (inner); the i-th call, from 0
CallData(i) ==
    [request_index |-> i \div Cardinality(stubs_),
     server_index |-> i % Cardinality(stubs_),
     state |-> "pending", status |-> "none"]

\* lines 184-243 (69-120): the call has prepared its n requests
update_response_cache(n) ==
    /\ fpc = "idle"
    /\ requests_size' = n
    /\ fpc' = IF n = 0 THEN "wait" ELSE "start"
    /\ UNCHANGED <<call_data_list, cq, completed, logged, received, live>>
    /\ UNCHANGED <<serverVars, clientVars, treeVars, mutex, uploadVars, lifeVars, localVars>>

\* lines 262-279 (138-155): one iteration of the inner loop starts a call
AsyncUpdateCache ==
    /\ fpc = "start"
    /\ call_data_list' = Append(call_data_list, CallData(Len(call_data_list)))
    /\ fpc' = IF Len(call_data_list') = requests_size * Cardinality(stubs_)
              THEN "wait" ELSE "start"
    /\ UNCHANGED <<requests_size, cq, completed, logged, received, live>>
    /\ UNCHANGED <<serverVars, clientVars, treeVars, mutex, uploadVars, lifeVars, localVars>>

\* how a call to an endpoint can end: the handler has answered success, the
\* handler was left by an exception, or the endpoint could not be reached
Answers(server_index) ==
    IF server_index \in live THEN {"ok", "error"} ELSE {"unavailable"}

\* gRPC finishes the call with tag k and puts the tag into the completion
\* queue (lines 271-276, the Finish registered for it)
Finish(k) ==
    /\ k \in DOMAIN call_data_list
    /\ call_data_list[k].state = "pending"
    /\ \E status \in Answers(call_data_list[k].server_index) :
          /\ call_data_list' = [call_data_list EXCEPT ![k].state = "done",
                                                      ![k].status = status]
          /\ received' =
                IF status = "unavailable" THEN received
                ELSE [received EXCEPT ![<<call_data_list[k].server_index,
                                          call_data_list[k].request_index>>] = @ + 1]
    /\ cq' = cq \cup {k}
    /\ UNCHANGED <<fpc, requests_size, completed, logged, live>>
    /\ UNCHANGED <<serverVars, clientVars, treeVars, mutex, uploadVars, lifeVars, localVars>>

\* lines 283-302 (160-181): one iteration of the waiting loop: cq.Next hands
\* out a finished call, and a call that did not succeed is reported
cq_Next ==
    /\ fpc = "wait"
    /\ completed < total_calls(requests_size)
    /\ \E k \in cq :
          /\ cq' = cq \ {k}
          /\ logged' = IF call_data_list[k].status = "ok" THEN logged
                       ELSE logged \cup {k}
    /\ completed' = completed + 1
    /\ UNCHANGED <<fpc, requests_size, call_data_list, received, live>>
    /\ UNCHANGED <<serverVars, clientVars, treeVars, mutex, uploadVars, lifeVars, localVars>>

\* line 304 (182): the waiting loop has counted total_calls, the call returns
update_return ==
    /\ fpc = "wait"
    /\ completed >= total_calls(requests_size)
    /\ fpc' = "returned"
    /\ UNCHANGED <<requests_size, call_data_list, cq, completed, logged,
                   received, live>>
    /\ UNCHANGED <<serverVars, clientVars, treeVars, mutex, uploadVars, lifeVars, localVars>>

\* ---- the requests of update_response_cache (lines 192-243)

\* lines 213-215: XXH64 of the last prompt_len tokens of the prompt. The
\* value depends on the bytes hashed and on nothing else, and is of another
\* type than the tokens; the hashes of different token strings are kept
\* different.
XXH64_bytes(token_data) == <<"XXH64", token_data>>

\* lines 206-211: int prompt_len, not more than prompt.size()
prompt_len(prompt, prompt_length) ==
    IF prompt_length > Len(prompt) THEN Len(prompt) ELSE prompt_length

\* line 220: operator[] of the map; a hash that is not in the map yet is
\* entered with 0
uploaded_len(map, hash) == IF hash \in DOMAIN map THEN map[hash] ELSE 0

\* line 221: std::min(uploaded_len, prompt.size() - prompt_len)
request_start_idx(map, hash, prompt, len) == Min(uploaded_len(map, hash), Len(prompt) - len)

\* lines 199-240, the prompt part of one request: prompt_hash and the tokens
\* prompt[start_idx..]; `input`, `prompt_length` and `uploaded_len` record
\* what it was made from
UpdateCacheRequest(map, prompt, prompt_length, call) ==
    LET len == prompt_len(prompt, prompt_length)
        hash == XXH64_bytes(SubSeq(prompt, Len(prompt) - len + 1, Len(prompt)))
    IN [prompt_hash |-> hash,
        prompt |-> SubSeq(prompt, request_start_idx(map, hash, prompt, len) + 1, Len(prompt)),
        input |-> prompt,
        prompt_length |-> prompt_length,
        uploaded_len |-> uploaded_len(map, hash),
        call |-> call]

\* line 242: prompt_hash_to_uploaded_len_[hash] = prompt.size()
SetUploadedLen(map, hash, size) ==
    [h \in DOMAIN map \cup {hash} |-> IF h = hash THEN size ELSE map[h]]

\* lines 198-243: the loop over the requests of one call, from request i on;
\* gives the map and the requests after the loop
RECURSIVE PrepareRequests(_, _, _, _, _)
PrepareRequests(map, done, inputs, i, call) ==
    IF i > Len(inputs) THEN [map |-> map, requests |-> done]
    ELSE LET r == UpdateCacheRequest(map, inputs[i].prompt, inputs[i].prompt_length, call)
         IN PrepareRequests(SetUploadedLen(map, r.prompt_hash, Len(inputs[i].prompt)),
                            Append(done, r), inputs, i + 1, call)

\* the number of update calls made so far
UpdateCalls == IF uploads = <<>> THEN 0 ELSE uploads[Len(uploads)].call

\* lines 184-243 and 304: one call of update_response_cache from its entry
\* to its return, as the next call sees it: the requests are prepared and the
\* map is written; the fan-out in between (lines 245-303) reads the requests
\* and writes nothing that outlives the call
update_response_cache_requests(inputs) ==
    /\ fpc = "idle"
    /\ UpdateCalls < MaxUpdateCalls
    /\ LET prepared == PrepareRequests(prompt_hash_to_uploaded_len_, <<>>, inputs, 1,
                                       UpdateCalls + 1)
       IN /\ prompt_hash_to_uploaded_len_' = prepared.map
          /\ uploads' = uploads \o prepared.requests
    /\ UNCHANGED <<serverVars, clientVars, treeVars, mutex, fanoutVars, lifeVars, localVars>>

\* ------------------------------------------------------------- SuffixTree
\* no UpdateCache request (the specifications without a tree), no speculate call
NoRequest == [prompt |-> <<>>, responses |-> <<>>]
NoCall == [outcome |-> "none"]

\* A tree is the table `nodes` of its Node objects (a NodePtr is an index of
\* the table, Null for nullptr, Root for _root) and the sequence 0 of _seqs.
\* Positions in a sequence are counted from 0 as in the code.
Root == 1
At(s, i) == s[i + 1]

\* suffix_tree.h:88 Node(alloc)
NewNode ==
    [count |-> 0, parent |-> Null, children |-> <<>>, seq_id |-> -1,
     start |-> 0, length |-> 0, suffix_link |-> Null]

\* lines 69-74: the root, whose suffix link points to itself
RootNode == [NewNode EXCEPT !.suffix_link = Root]

\* UkkonenState as extend() initializes it for a new sequence (lines 84-89)
NewUkkonenState ==
    [active_node |-> Root, active_edge |-> -1, active_length |-> 0,
     remaining_suffixes |-> 0]

\* lines 421-434
_create_leaf_node(seq_id, start_pos, parent) ==
    [NewNode EXCEPT !.parent = parent, !.seq_id = seq_id, !.start = start_pos,
                    !.length = -1, !.count = 1]

\* lines 338-355, for the one sequence the tree is built from
_get_edge_length(ns, node, pos) ==
    IF node = Root THEN 0
    ELSE IF ns[node].length = -1 THEN pos - ns[node].start + 1
    ELSE ns[node].length

\* _split_edge without lines 401-404: the parent keeps the old child
_split_edge_KeepChild(ns, sq, node, split_pos) ==
    LET split_node == Len(ns) + 1
        old == ns[node]
        ns1 == Append(ns, [NewNode EXCEPT !.parent = old.parent,
                                          !.seq_id = old.seq_id,
                                          !.start = old.start,
                                          !.length = split_pos])
        ns3 == [ns1 EXCEPT ![node].parent = split_node,
                           ![node].start = old.start + split_pos,
                           ![node].length = IF old.length # -1
                                            THEN old.length - split_pos
                                            ELSE old.length]
        split_char == At(sq, ns3[node].start)
    IN <<[ns3 EXCEPT ![split_node].children = MapPut(@, split_char, node)],
         split_node>>

\* lines 383-419: returns <<nodes, split_node>>
_split_edge(ns, sq, node, split_pos) ==
    LET split_node == Len(ns) + 1
        old == ns[node]
        ns1 == Append(ns, [NewNode EXCEPT !.parent = old.parent,
                                          !.seq_id = old.seq_id,
                                          !.start = old.start,
                                          !.length = split_pos])
        first_char == At(sq, old.start)
        ns2 == IF old.parent # Null
               THEN [ns1 EXCEPT ![old.parent].children =
                                     MapPut(@, first_char, split_node)]
               ELSE ns1
        ns3 == [ns2 EXCEPT ![node].parent = split_node,
                           ![node].start = old.start + split_pos,
                           ![node].length = IF old.length # -1
                                            THEN old.length - split_pos
                                            ELSE old.length]
        split_char == At(sq, ns3[node].start)
    IN <<[ns3 EXCEPT ![split_node].children = MapPut(@, split_char, node)],
         split_node>>

\* lines 554-560: "move to next suffix" at the end of a loop iteration.
\* u is [nodes, state, last_new_node].
NextSuffix(u, pos) ==
    LET remaining == u.state.remaining_suffixes - 1
        st == [u.state EXCEPT !.remaining_suffixes = remaining]
    IN IF st.active_node = Root /\ st.active_length > 0
       THEN [u EXCEPT !.state = [st EXCEPT !.active_length = @ - 1,
                                           !.active_edge = pos - remaining + 1]]
       ELSE IF st.active_node # Root
            THEN [u EXCEPT !.state =
                     [st EXCEPT !.active_node =
                         IF u.nodes[st.active_node].suffix_link # Null
                         THEN u.nodes[st.active_node].suffix_link
                         ELSE Root]]
            ELSE [u EXCEPT !.state = st]

\* lines 459-561: the while loop of _extend_tree
RECURSIVE ExtendLoop(_, _, _)
ExtendLoop(u0, sq, pos) ==
    IF u0.state.remaining_suffixes <= 0 THEN u0
    ELSE
    LET current_char == At(sq, pos)
        u == IF u0.state.active_length = 0
             THEN [u0 EXCEPT !.state.active_edge = pos]
             ELSE u0
        st == u.state
        search_char == IF st.active_length = 0 THEN current_char
                       ELSE At(sq, st.active_edge)
        siblings == u.nodes[st.active_node].children
        child == IF search_char \in DOMAIN siblings
                 THEN siblings[search_char] ELSE Null
    IN IF child = Null
       THEN LET leaf == Len(u.nodes) + 1
                ns1 == Append([u.nodes EXCEPT ![st.active_node].children =
                                                  MapPut(@, current_char, leaf)],
                              _create_leaf_node(0, pos, st.active_node))
                ns2 == IF u.last_new_node # Null
                       THEN [ns1 EXCEPT ![u.last_new_node].suffix_link =
                                            st.active_node]
                       ELSE ns1
            IN ExtendLoop(NextSuffix([u EXCEPT !.nodes = ns2,
                                               !.last_new_node = Null], pos),
                          sq, pos)
       ELSE
       LET edge_length == _get_edge_length(u.nodes, child, pos)
           edge_char_pos == u.nodes[child].start + st.active_length
       IN IF st.active_length >= edge_length
          THEN ExtendLoop([u EXCEPT !.state.active_edge = @ + edge_length,
                                    !.state.active_length = @ - edge_length,
                                    !.state.active_node = child], sq, pos)
          ELSE IF \/ u.nodes[child].length = -1 /\ edge_char_pos >= Len(sq)
                  \/ u.nodes[child].length # -1
                        /\ st.active_length >= u.nodes[child].length
               THEN u
          ELSE IF At(sq, edge_char_pos) = current_char
               THEN IF u.last_new_node # Null /\ st.active_node # Root
                    THEN [u EXCEPT !.state.active_length = @ + 1,
                                   !.nodes[u.last_new_node].suffix_link =
                                       st.active_node,
                                   !.last_new_node = Null]
                    ELSE [u EXCEPT !.state.active_length = @ + 1]
          ELSE LET sp == _split_edge(u.nodes, sq, child, st.active_length)
                   split_node == sp[2]
                   leaf == Len(sp[1]) + 1
                   ns1 == Append([sp[1] EXCEPT ![split_node].children =
                                                   MapPut(@, current_char, leaf)],
                                 _create_leaf_node(0, pos, split_node))
                   ns2 == IF u.last_new_node # Null
                          THEN [ns1 EXCEPT ![u.last_new_node].suffix_link =
                                               split_node]
                          ELSE ns1
               IN ExtendLoop(NextSuffix([u EXCEPT !.nodes = ns2,
                                                  !.last_new_node = split_node],
                                        pos),
                             sq, pos)

\* lines 451-566: _extend_tree(0, pos), sq being the sequence with the token
\* at pos already pushed. Returns [nodes, state].
_extend_tree(ns, state, sq, pos) ==
    LET u == ExtendLoop([nodes |-> ns,
                         state |-> [state EXCEPT !.remaining_suffixes = @ + 1],
                         last_new_node |-> Null], sq, pos)
    IN [nodes |-> IF u.last_new_node # Null
                  THEN [u.nodes EXCEPT ![u.last_new_node].suffix_link = Root]
                  ELSE u.nodes,
        state |-> u.state]

\* the keys of a std::map in iteration (ascending) order
RECURSIVE SortedKeys(_)
SortedKeys(S) ==
    IF S = {} THEN <<>>
    ELSE LET m == CHOOSE x \in S : \A y \in S : x <= y
         IN <<m>> \o SortedKeys(S \ {m})

\* CountOf that gives a node with children one more than its children's sum
RECURSIVE CountOf_Self(_, _)
RECURSIVE SumCounts_Self(_, _, _)
CountOf_Self(ns, node) ==
    IF node = Null THEN 0
    ELSE IF DOMAIN ns[node].children = {} THEN 1
    ELSE 1 + SumCounts_Self(ns, ns[node].children, DOMAIN ns[node].children)
SumCounts_Self(ns, children, keys) ==
    IF keys = {} THEN 0
    ELSE LET k == CHOOSE x \in keys : TRUE
         IN CountOf_Self(ns, children[k]) + SumCounts_Self(ns, children, keys \ {k})

\* lines 569-588: the value _update_node_counts(node) returns
RECURSIVE CountOf(_, _)
RECURSIVE SumCounts(_, _, _)
CountOf(ns, node) ==
    IF node = Null THEN 0
    ELSE IF DOMAIN ns[node].children = {} THEN 1
    ELSE SumCounts(ns, ns[node].children, DOMAIN ns[node].children)
SumCounts(ns, children, keys) ==
    IF keys = {} THEN 0
    ELSE LET k == CHOOSE x \in keys : TRUE
         IN CountOf(ns, children[k]) + SumCounts(ns, children, keys \ {k})

\* the nodes _update_node_counts(node) visits
RECURSIVE Visited(_, _)
Visited(ns, node) ==
    IF node = Null THEN {}
    ELSE {node} \cup UNION {Visited(ns, ns[node].children[k]) :
                               k \in DOMAIN ns[node].children}

\* lines 569-588: the table after _update_node_counts(_root)
_update_node_counts(ns) ==
    LET visited == Visited(ns, Root)
    IN [n \in DOMAIN ns |->
           IF n \in visited THEN [ns[n] EXCEPT !.count = CountOf(ns, n)]
           ELSE ns[n]]

\* EdgeLength that takes the stored length of a leaf, -1, as it is
EdgeLength_Stored(ns, sq, node) == ns[node].length

\* the edge length _match_pattern and the speculation use: a leaf edge runs
\* to the end of the sequence (lines 184-190, 244-245, 313-314)
EdgeLength(ns, sq, node) ==
    IF ns[node].length = -1 THEN Len(sq) - ns[node].start ELSE ns[node].length

\* lines 172-203: the while (true) loop for the token c; <<Null, -1>> when
\* it returns {nullptr, -1}
RECURSIVE Descend(_, _, _, _, _)
Descend(ns, sq, c, current_node, edge_idx) ==
    IF current_node = Root
    THEN IF c \in DOMAIN ns[Root].children
         THEN <<ns[Root].children[c], 0>> ELSE <<Null, -1>>
    ELSE IF edge_idx >= EdgeLength(ns, sq, current_node)
         THEN IF c \in DOMAIN ns[current_node].children
              THEN Descend(ns, sq, c, ns[current_node].children[c], 0)
              ELSE <<Null, -1>>
         ELSE <<current_node, edge_idx>>

\* MatchFrom without the comparison of lines 226-229
RECURSIVE MatchFrom_NoCompare(_, _, _, _, _, _)
MatchFrom_NoCompare(ns, sq, pattern, i, current_node, edge_idx) ==
    IF i >= Len(pattern) THEN <<current_node, edge_idx>>
    ELSE LET c == At(pattern, i)
             d == Descend(ns, sq, c, current_node, edge_idx)
             node == d[1]
             edge_pos == ns[node].start + d[2]
         IN IF node = Null THEN <<Null, -1>>
            ELSE IF ns[node].length = -1 /\ edge_pos >= Len(sq) THEN <<Null, -1>>
            ELSE IF ns[node].length # -1 /\ d[2] >= ns[node].length
                 THEN <<Null, -1>>
            ELSE MatchFrom_NoCompare(ns, sq, pattern, i + 1, node, d[2] + 1)

\* lines 168-232: the for loop from position i of the pattern on
RECURSIVE MatchFrom(_, _, _, _, _, _)
MatchFrom(ns, sq, pattern, i, current_node, edge_idx) ==
    IF i >= Len(pattern) THEN <<current_node, edge_idx>>
    ELSE LET c == At(pattern, i)
             d == Descend(ns, sq, c, current_node, edge_idx)
             node == d[1]
             edge_pos == ns[node].start + d[2]
         IN IF node = Null THEN <<Null, -1>>
            ELSE IF ns[node].length = -1 /\ edge_pos >= Len(sq) THEN <<Null, -1>>
            ELSE IF ns[node].length # -1 /\ d[2] >= ns[node].length
                 THEN <<Null, -1>>
            ELSE IF At(sq, edge_pos) # c THEN <<Null, -1>>
            ELSE MatchFrom(ns, sq, pattern, i + 1, node, d[2] + 1)

\* lines 163-235
_match_pattern(ns, sq, pattern, start_idx) ==
    MatchFrom(ns, sq, pattern, start_idx, Root, 0)

\* ---- a float probability as the exact fraction <<numerator, denominator>>
\* in lowest terms: products and sums of count ratios without the rounding
\* of float
RECURSIVE GCD(_, _)
GCD(a, b) == IF b = 0 THEN a ELSE GCD(b, a % b)
Frac(n, d) == IF n = 0 THEN <<0, 1>> ELSE <<n \div GCD(n, d), d \div GCD(n, d)>>
FracMul(p, n, d) == Frac(p[1] * n, p[2] * d)
FracAdd(p, q) == Frac(p[1] * q[2] + q[1] * p[2], p[2] * q[2])
FracGe(p, q) == p[1] * q[2] >= q[1] * p[2]

\* suffix_tree.h:91-106
NewCandidate ==
    [token_ids |-> <<>>, parents |-> <<>>, probs |-> <<>>, score |-> <<0, 1>>,
     match_len |-> 0]

\* BelowMax that lets the loop run once more when the size has reached the maximum
BelowMax_Inclusive(size, max_spec_tokens) == size <= max_spec_tokens

\* `size < static_cast<size_t>(max_spec_tokens)`: a negative max_spec_tokens
\* converts to a value no vector size reaches
BelowMax(size, max_spec_tokens) ==
    IF max_spec_tokens < 0 THEN TRUE ELSE size < max_spec_tokens

\* lines 253-262 of _speculate_path / 318-322 of _speculate_tree: push a token
PushToken(ret, token, parent, prob) ==
    [ret EXCEPT !.token_ids = Append(@, token),
                !.parents = Append(@, parent),
                !.probs = Append(@, prob),
                !.score = FracAdd(@, prob)]

\* lines 264-272: the child with the maximum count, the first one in key
\* order among equals; Null when there is no child
RECURSIVE BestChild(_, _, _, _, _)
BestChild(ns, children, keys, child, count) ==
    IF keys = <<>> THEN child
    ELSE LET ch == children[Head(keys)]
         IN IF ns[ch].count > count
            THEN BestChild(ns, children, Tail(keys), ch, ns[ch].count)
            ELSE BestChild(ns, children, Tail(keys), child, count)

\* lines 241-277: the while loop of _speculate_path
RECURSIVE SpeculatePathLoop(_, _, _, _, _, _, _, _)
SpeculatePathLoop(ns, sq, ret, prob, node, idx, max_spec_tokens, min_token_prob) ==
    IF ~(BelowMax(Len(ret.token_ids), max_spec_tokens)
           /\ FracGe(prob, min_token_prob))
    THEN ret
    ELSE IF idx < EdgeLength(ns, sq, node)
    THEN LET token == At(sq, ns[node].start + idx)
         IN IF token = -1 THEN ret
            ELSE SpeculatePathLoop(ns, sq,
                     PushToken(ret, token, Len(ret.token_ids) - 1, prob),
                     prob, node, idx + 1, max_spec_tokens, min_token_prob)
    ELSE LET child == BestChild(ns, ns[node].children,
                                SortedKeys(DOMAIN ns[node].children), Null, 0)
         IN IF child = Null THEN ret
            ELSE SpeculatePathLoop(ns, sq, ret,
                     FracMul(prob, ns[child].count, ns[node].count),
                     child, 0, max_spec_tokens, min_token_prob)

\* _speculate_path that starts one token behind the end of the match
_speculate_path_Skip(ns, sq, node, idx, max_spec_tokens, min_token_prob) ==
    SpeculatePathLoop(ns, sq, NewCandidate, <<1, 1>>, node, idx + 1,
                      max_spec_tokens, min_token_prob)

\* _speculate_path whose loop does not test prob >= min_token_prob
_speculate_path_NoMin(ns, sq, node, idx, max_spec_tokens, min_token_prob) ==
    SpeculatePathLoop(ns, sq, NewCandidate, <<1, 1>>, node, idx,
                      max_spec_tokens, <<0, 1>>)

\* lines 237-279
_speculate_path(ns, sq, node, idx, max_spec_tokens, min_token_prob) ==
    SpeculatePathLoop(ns, sq, NewCandidate, <<1, 1>>, node, idx,
                      max_spec_tokens, min_token_prob)

\* ---- std::priority_queue<HeapItem, std::vector<HeapItem>, HeapItemCompare>:
\* a vector kept as a binary heap by std::push_heap and std::pop_heap
\* HeapItemCompare with the comparison turned round (a.prob > b.prob)
HeapItemCompare_Greater(a, b) == ~FracGe(b.prob, a.prob)

\* lines 292-298: HeapItemCompare
HeapItemCompare(a, b) == ~FracGe(a.prob, b.prob)

SetAt(v, i, x) == [v EXCEPT ![i + 1] = x]

\* std::__push_heap: move the hole up while its parent compares less
RECURSIVE PushHeap(_, _, _, _)
PushHeap(v, holeIndex, topIndex, value) ==
    IF holeIndex > topIndex
          /\ HeapItemCompare(At(v, (holeIndex - 1) \div 2), value)
    THEN PushHeap(SetAt(v, holeIndex, At(v, (holeIndex - 1) \div 2)),
                  (holeIndex - 1) \div 2, topIndex, value)
    ELSE SetAt(v, holeIndex, value)

\* queue.emplace(...): push_back, then std::push_heap
QueuePush(v, item) == PushHeap(Append(v, item), Len(v), 0, item)

\* std::__adjust_heap: move the hole down to a leaf along the larger
\* children, then push the value up from there
RECURSIVE AdjustHeap(_, _, _, _, _)
AdjustHeap(v, holeIndex, secondChild, len, value) ==
    IF secondChild < (len - 1) \div 2
    THEN LET right == 2 * (secondChild + 1)
             pick == IF HeapItemCompare(At(v, right), At(v, right - 1))
                     THEN right - 1 ELSE right
         IN AdjustHeap(SetAt(v, holeIndex, At(v, pick)), pick, pick, len, value)
    ELSE IF len % 2 = 0 /\ secondChild = (len - 2) \div 2
         THEN LET only == 2 * (secondChild + 1) - 1
              IN PushHeap(SetAt(v, holeIndex, At(v, only)), only, 0, value)
         ELSE PushHeap(v, holeIndex, 0, value)

\* queue.pop(): std::pop_heap, then pop_back
QueuePop(v) ==
    IF Len(v) > 1
    THEN LET value == v[Len(v)]
         IN SubSeq(AdjustHeap(SetAt(v, Len(v) - 1, v[1]), 0, 0, Len(v) - 1, value),
                   1, Len(v) - 1)
    ELSE <<>>

\* lines 324-331: the children of the item's node, in key order
RECURSIVE PushChildren(_, _, _, _, _)
PushChildren(ns, queue, item, keys, min_token_prob) ==
    IF keys = <<>> THEN queue
    ELSE LET child == ns[item.node].children[Head(keys)]
             prob == FracMul(item.prob, ns[child].count, ns[item.node].count)
         IN PushChildren(ns,
                IF FracGe(prob, min_token_prob)
                THEN QueuePush(queue, [prob |-> prob, node |-> child, idx |-> 0,
                                       parent |-> item.parent])
                ELSE queue,
                item, Tail(keys), min_token_prob)

\* lines 306-333: the while loop of _speculate_tree
RECURSIVE SpeculateTreeLoop(_, _, _, _, _, _)
SpeculateTreeLoop(ns, sq, ret, queue, max_spec_tokens, min_token_prob) ==
    IF ~(BelowMax(Len(ret.token_ids), max_spec_tokens) /\ queue # <<>>)
    THEN ret
    ELSE LET item == queue[1]
             popped == QueuePop(queue)
         IN IF item.idx < EdgeLength(ns, sq, item.node)
            THEN LET token == At(sq, ns[item.node].start + item.idx)
                     ret1 == PushToken(ret, token, item.parent, item.prob)
                 IN SpeculateTreeLoop(ns, sq, ret1,
                        QueuePush(popped, [prob |-> item.prob, node |-> item.node,
                                           idx |-> item.idx + 1,
                                           parent |-> Len(ret1.token_ids) - 1]),
                        max_spec_tokens, min_token_prob)
            ELSE SpeculateTreeLoop(ns, sq, ret,
                     PushChildren(ns, popped, item,
                                  SortedKeys(DOMAIN ns[item.node].children),
                                  min_token_prob),
                     max_spec_tokens, min_token_prob)

\* lines 300-335
_speculate_tree(ns, sq, node, idx, max_spec_tokens, min_token_prob) ==
    SpeculateTreeLoop(ns, sq, NewCandidate,
                      <<[prob |-> <<1, 1>>, node |-> node, idx |-> idx,
                         parent |-> -1]>>,
                      max_spec_tokens, min_token_prob)

\* SpeculateFrom that prefers the candidate of a later start_idx
RECURSIVE SpeculateFrom_Later(_, _, _, _, _, _, _)
SpeculateFrom_Later(ns, sq, pattern, start_idx, max_spec_tokens, min_token_prob, use_tree_spec) ==
    IF ~(start_idx < Len(pattern) - 3) THEN NewCandidate
    ELSE LET m == _match_pattern(ns, sq, pattern, start_idx)
             candidate ==
                 IF use_tree_spec
                 THEN _speculate_tree(ns, sq, m[1], m[2], max_spec_tokens,
                                      min_token_prob)
                 ELSE _speculate_path(ns, sq, m[1], m[2], max_spec_tokens,
                                      min_token_prob)
             later == SpeculateFrom_Later(ns, sq, pattern, start_idx + 1,
                                          max_spec_tokens, min_token_prob,
                                          use_tree_spec)
         IN IF later # NewCandidate THEN later
            ELSE IF m[1] # Null /\ candidate.score # <<0, 1>> THEN candidate
            ELSE NewCandidate

\* lines 144-159: the loop of speculate from start_idx on
RECURSIVE SpeculateFrom(_, _, _, _, _, _, _)
SpeculateFrom(ns, sq, pattern, start_idx, max_spec_tokens, min_token_prob, use_tree_spec) ==
    IF ~(start_idx < Len(pattern) - 3) THEN NewCandidate
    ELSE LET m == _match_pattern(ns, sq, pattern, start_idx)
             candidate ==
                 IF use_tree_spec
                 THEN _speculate_tree(ns, sq, m[1], m[2], max_spec_tokens,
                                      min_token_prob)
                 ELSE _speculate_path(ns, sq, m[1], m[2], max_spec_tokens,
                                      min_token_prob)
         IN IF m[1] = Null
            THEN SpeculateFrom(ns, sq, pattern, start_idx + 1, max_spec_tokens,
                               min_token_prob, use_tree_spec)
            ELSE IF candidate.score # <<0, 1>> THEN candidate
            ELSE SpeculateFrom(ns, sq, pattern, start_idx + 1, max_spec_tokens,
                               min_token_prob, use_tree_spec)

\* lines 139-161: SuffixTree::speculate on a tree with a root
SuffixTree_speculate(ns, sq, pattern, max_spec_tokens, min_token_prob, use_tree_spec) ==
    SpeculateFrom(ns, sq, pattern, 0, max_spec_tokens, min_token_prob,
                  use_tree_spec)

\* rollout_cache_server.cc lines 34-65: the composite token stream
PrefixTokens(prompt) ==
    IF Len(prompt) = 0 THEN <<>>
    ELSE SubSeq(prompt,
                (IF Len(prompt) >= prefix_tokens_to_include
                 THEN Len(prompt) - prefix_tokens_to_include ELSE 0) + 1,
                Len(prompt))

RECURSIVE ResponseTokens(_, _, _)
ResponseTokens(prefix_tokens, responses, i) ==
    IF i > Len(responses) THEN <<>>
    ELSE prefix_tokens \o responses[i] \o <<Terminator>>
             \o ResponseTokens(prefix_tokens, responses, i + 1)

CompositeTokens(req) ==
    (IF Len(req.prompt) > 0 THEN req.prompt \o <<Terminator>> ELSE <<>>)
        \o ResponseTokens(PrefixTokens(req.prompt), req.responses, 1)

\* The allocations a tree holds in the segment, by what they are: the
\* SuffixTree object, the bulk block of its nodes, the storage of _seqs and of
\* _ukkonen_states, and the entries of the children maps of its nodes.
NoMemory ==
    [SuffixTree |-> 0, memory_block |-> 0, _seqs |-> 0, _ukkonen_states |-> 0,
     children |-> 0]

\* rollout_cache_server.cc line 32: segment_->construct<SuffixTree>
Constructed == [NoMemory EXCEPT !.SuffixTree = 1]

\* the entries of the children maps of the nodes i.. of ns: every one is a
\* map node that children[...] = ... has taken from the segment allocator
\* (suffix_tree.cc lines 403, 416, 475, 538; entries are never erased)
RECURSIVE ChildrenEntries(_, _)
ChildrenEntries(ns, i) ==
    IF i > Len(ns) THEN 0
    ELSE Cardinality(DOMAIN ns[i].children) + ChildrenEntries(ns, i + 1)

\* suffix_tree.cc lines 40-49
_destroy_bulk_memory(a) == [a EXCEPT !.memory_block = 0]

\* rollout_cache_server.cc lines 31-65 and suffix_tree.cc lines 52-91:
\* UpdateCache constructs the tree and assembles the tokens; extend()
\* allocates the bulk block, sets up the root inside it, and creates the
\* sequence and the Ukkonen state; with no token at all extend() returns at
\* once (line 53)
UpdateCache_tokens ==
    /\ tpc = "request"
    /\ tokens' = CompositeTokens(request)
    /\ IF tokens' = <<>>
       THEN /\ tpc' = "built"
            /\ arena' = Constructed
            /\ UNCHANGED <<nodes, ukkonen_state>>
       ELSE /\ tpc' = "extend"
            /\ nodes' = <<RootNode>>
            /\ ukkonen_state' = NewUkkonenState
            /\ arena' = [Constructed EXCEPT !.memory_block = 1, !._seqs = 1,
                                            !._ukkonen_states = 1]
    /\ UNCHANGED <<request, seqs, spec>>
    /\ UNCHANGED <<serverVars, clientVars, mutex, fanoutVars, uploadVars, lifeVars, localVars>>

\* suffix_tree.cc lines 96-100: one iteration of `for (int token : tokens)`
SuffixTree_extend_token ==
    /\ tpc = "extend"
    /\ Len(seqs) < Len(tokens)
    /\ seqs' = Append(seqs, tokens[Len(seqs) + 1])
    /\ LET r == _extend_tree(nodes, ukkonen_state, seqs', Len(seqs') - 1)
       IN /\ nodes' = r.nodes
          /\ ukkonen_state' = r.state
    /\ arena' = [arena EXCEPT !.children = ChildrenEntries(nodes', 1)]
    /\ tpc' = IF Len(seqs') = Len(tokens) THEN "count" ELSE "extend"
    /\ UNCHANGED <<request, tokens, spec>>
    /\ UNCHANGED <<serverVars, clientVars, mutex, fanoutVars, uploadVars, lifeVars, localVars>>

\* SuffixTree_update_node_counts that counts every node with children once
\* more than its children's sum
SuffixTree_update_node_counts_Self ==
    /\ tpc = "count"
    /\ nodes' = [n \in DOMAIN nodes |->
                    [nodes[n] EXCEPT !.count = CountOf_Self(nodes, n)]]
    /\ tpc' = "built"
    /\ UNCHANGED <<request, tokens, seqs, ukkonen_state, arena, spec>>
    /\ UNCHANGED <<serverVars, clientVars, mutex, fanoutVars, uploadVars, lifeVars, localVars>>

\* suffix_tree.cc lines 103-105: the count pass that ends extend()
SuffixTree_update_node_counts ==
    /\ tpc = "count"
    /\ nodes' = _update_node_counts(nodes)
    /\ tpc' = "built"
    /\ UNCHANGED <<request, tokens, seqs, ukkonen_state, arena, spec>>
    /\ UNCHANGED <<serverVars, clientVars, mutex, fanoutVars, uploadVars, lifeVars, localVars>>

\* suffix_tree.cc lines 52-106: extend(0, toks) on a new tree as one call, the
\* table of nodes it leaves (<<>> when there is no token and no root)
RECURSIVE ExtendTokens(_, _, _, _)
ExtendTokens(ns, state, toks, i) ==
    IF i > Len(toks) THEN ns
    ELSE LET r == _extend_tree(ns, state, SubSeq(toks, 1, i), i - 1)
         IN ExtendTokens(r.nodes, r.state, toks, i + 1)
SuffixTree_extend(toks) ==
    IF toks = <<>> THEN <<>>
    ELSE _update_node_counts(ExtendTokens(<<RootNode>>, NewUkkonenState, toks, 1))

\* suffix_tree.cc lines 139-161: a speculate call on the finished tree. On a
\* tree without a root (nothing was extended) _match_pattern dereferences the
\* null _root as soon as the loop body runs: the call may crash or return
\* nothing.
SuffixTree_speculate_call(pattern, max_spec_tokens, min_token_prob, use_tree_spec) ==
    /\ tpc = "built"
    /\ spec = NoCall
    /\ \E outcome \in (IF nodes = <<>> /\ Len(pattern) > 3
                       THEN {"crash", "returned"} ELSE {"returned"}) :
          spec' = [pattern |-> pattern, max_spec_tokens |-> max_spec_tokens,
                   min_token_prob |-> min_token_prob,
                   use_tree_spec |-> use_tree_spec,
                   outcome |-> outcome,
                   result |-> IF nodes = <<>> THEN NewCandidate
                              ELSE SuffixTree_speculate(nodes, seqs, pattern,
                                       max_spec_tokens, min_token_prob,
                                       use_tree_spec)]
    /\ UNCHANGED <<request, tokens, seqs, nodes, ukkonen_state, tpc, arena>>
    /\ UNCHANGED <<serverVars, clientVars, mutex, fanoutVars, uploadVars, lifeVars, localVars>>

\* suffix_tree.cc line 160: the Candidate has gone to the caller, the tree is
\* ready for the next call
SuffixTree_speculate_return ==
    /\ tpc = "built"
    /\ spec # NoCall
    /\ spec' = NoCall
    /\ UNCHANGED <<request, tokens, seqs, nodes, ukkonen_state, tpc, arena>>
    /\ UNCHANGED <<serverVars, clientVars, mutex, fanoutVars, uploadVars, lifeVars, localVars>>

\* rollout_cache_server.cc lines 85-87 and suffix_tree.cc lines 36-49:
\* destroy_ptr on the tree. ~SuffixTree gives the bulk block back, the
\* members _seqs and _ukkonen_states free their storage, and the object
\* itself is deallocated; no destructor of a Node runs.
SuffixTree_destroy ==
    /\ tpc = "built"
    /\ spec = NoCall
    /\ arena' = [_destroy_bulk_memory(arena) EXCEPT !.SuffixTree = 0, !._seqs = 0,
                                                    !._ukkonen_states = 0]
    /\ nodes' = <<>>
    /\ seqs' = <<>>
    /\ tpc' = "destroyed"
    /\ UNCHANGED <<request, tokens, ukkonen_state, spec>>
    /\ UNCHANGED <<serverVars, clientVars, mutex, fanoutVars, uploadVars, lifeVars, localVars>>

\* ------------------------------------------- SuffixTree::extend_from_local
\* suffix_tree.h:62 LocalNode(); a LocalNode* is an index of the table of the
\* LocalNode objects, Null for nullptr, Root for _root.get()
NewLocalNode ==
    [count |-> 0, parent |-> Null, children |-> <<>>, seq_id |-> -1,
     start |-> 0, length |-> 0, suffix_link |-> Null]

\* lines 687-690: the root of the local tree
LocalRootNode == [NewLocalNode EXCEPT !.suffix_link = Root]

\* lines 694-698
NewLocalUkkonenState ==
    [active_node |-> Root, active_edge |-> -1, active_length |-> 0,
     remaining_suffixes |-> 0]

\* no LocalSuffixTree (no call of extend_from_local has built one)
NoLocalTree ==
    [nodes |-> <<>>, state |-> NewLocalUkkonenState, pos |-> 0, undefined |-> {}]

\* lines 775-782
_create_leaf_node_local(seq_id, start_pos, parent) ==
    [NewLocalNode EXCEPT !.seq_id = seq_id, !.start = start_pos, !.length = -1,
                         !.parent = parent]

\* lines 784-791
_create_internal_node_local(parent, seq_id, start, length) ==
    [NewLocalNode EXCEPT !.seq_id = seq_id, !.start = start, !.length = length,
                         !.parent = parent]

\* lines 815-820
_get_edge_length_local(ns, node, pos) ==
    IF ns[node].length = -1 THEN pos - ns[node].start + 1 ELSE ns[node].length

\* lines 803-806: the unique_ptr at parent->children[first_char] owns `node`
\* when the split node is assigned to it, so the assignment deletes `node`;
\* lines 809-810 then read node->seq_id and node->start and give the dangling
\* pointer to a second unique_ptr
SplitDeletesNode(ns, sq, node) ==
    LET parent == ns[node].parent
        first_char == At(sq, ns[node].start)
    IN /\ parent # Null
       /\ first_char \in DOMAIN ns[parent].children
       /\ ns[parent].children[first_char] = node

\* lines 793-813, as written: returns <<nodes, split_node>>
_split_edge_local(ns, sq, node, split_pos) ==
    LET split_node == Len(ns) + 1
        old == ns[node]
        ns1 == Append(ns, _create_internal_node_local(old.parent, old.seq_id,
                                                      old.start, split_pos))
        ns2 == [ns1 EXCEPT ![node].start = old.start + split_pos,
                           ![node].length = IF old.length = -1 THEN -1
                                            ELSE old.length - split_pos,
                           ![node].parent = split_node]
        ns3 == IF ns2[split_node].parent # Null
               THEN [ns2 EXCEPT ![old.parent].children =
                                    MapPut(@, At(sq, ns2[split_node].start),
                                           split_node)]
               ELSE ns2
        first_char == At(sq, ns3[node].start)
    IN <<[ns3 EXCEPT ![split_node].children = MapPut(@, first_char, node)],
         split_node>>

\* the use of the deleted node at lines 809-810 and its second deletion when
\* the LocalSuffixTree is destroyed (line 137): the process is aborted or
\* crashes, or the memory is still as it was and the run goes on as written
FreedNodeOutcomes == {"crash", "continues"}

\* line 725, state.active_node->children, with active_node == nullptr after
\* line 770 has followed a suffix link that was never set
NullLinkOutcomes == {"crash", "undefined"}

\* lines 764-771: "move to next suffix"; the suffix link is taken as it is.
\* u is [nodes, state, last_new_node, undefined, stop].
NextSuffix_local(u, pos) ==
    LET remaining == u.state.remaining_suffixes - 1
        st == [u.state EXCEPT !.remaining_suffixes = remaining]
    IN IF st.active_node = Root /\ st.active_length > 0
       THEN [u EXCEPT !.state = [st EXCEPT !.active_length = @ - 1,
                                           !.active_edge = pos - remaining + 1]]
       ELSE IF st.active_node # Root
            THEN [u EXCEPT !.state =
                     [st EXCEPT !.active_node =
                                    u.nodes[st.active_node].suffix_link]]
            ELSE [u EXCEPT !.state = st]

\* lines 719-772: the while loop of _extend_tree_local. It stops where the
\* run leaves defined behaviour for good: u.stop says at what.
RECURSIVE ExtendLoop_local(_, _, _, _)
ExtendLoop_local(u0, sq, pos, freed_outcome) ==
    IF u0.state.remaining_suffixes <= 0 THEN u0
    ELSE IF u0.state.active_node = Null
    THEN [u0 EXCEPT !.stop = "null suffix link",
                    !.undefined = @ \cup {"null suffix link"}]
    ELSE
    LET c == At(sq, pos)
        u == IF u0.state.active_length = 0
             THEN [u0 EXCEPT !.state.active_edge = pos]
             ELSE u0
        st == u.state
        siblings == u.nodes[st.active_node].children
        key == At(sq, st.active_edge)
    IN IF key \notin DOMAIN siblings
       THEN LET new_leaf == Len(u.nodes) + 1
                ns1 == Append([u.nodes EXCEPT ![st.active_node].children =
                                                  MapPut(@, c, new_leaf)],
                              _create_leaf_node_local(0, pos, st.active_node))
                ns2 == IF u.last_new_node # Null
                       THEN [ns1 EXCEPT ![u.last_new_node].suffix_link =
                                            st.active_node]
                       ELSE ns1
            IN ExtendLoop_local(
                   NextSuffix_local([u EXCEPT !.nodes = ns2,
                                              !.last_new_node = st.active_node],
                                    pos),
                   sq, pos, freed_outcome)
       ELSE
       LET next == siblings[key]
           edge_length == _get_edge_length_local(u.nodes, next, pos)
           edge_pos == u.nodes[next].start + st.active_length
       IN IF st.active_length >= edge_length
          THEN ExtendLoop_local([u EXCEPT !.state.active_edge = @ + edge_length,
                                          !.state.active_length = @ - edge_length,
                                          !.state.active_node = next],
                                sq, pos, freed_outcome)
          ELSE IF At(sq, edge_pos) = c
               THEN IF u.last_new_node # Null /\ st.active_node # Root
                    THEN [u EXCEPT !.state.active_length = @ + 1,
                                   !.nodes[u.last_new_node].suffix_link =
                                       st.active_node]
                    ELSE [u EXCEPT !.state.active_length = @ + 1]
          ELSE LET deletes == SplitDeletesNode(u.nodes, sq, next)
                   sp == _split_edge_local(u.nodes, sq, next, st.active_length)
                   split_node == sp[2]
                   new_leaf == Len(sp[1]) + 1
                   ns1 == Append([sp[1] EXCEPT ![split_node].children =
                                                   MapPut(@, c, new_leaf)],
                                 _create_leaf_node_local(0, pos, split_node))
                   ns2 == IF u.last_new_node # Null
                          THEN [ns1 EXCEPT ![u.last_new_node].suffix_link =
                                               split_node]
                          ELSE ns1
                   undefined == IF deletes
                                THEN u.undefined \cup {"use after free"}
                                ELSE u.undefined
               IN IF deletes /\ freed_outcome = "crash"
                  THEN [u EXCEPT !.stop = "use after free",
                                 !.undefined = undefined]
                  ELSE ExtendLoop_local(
                           NextSuffix_local([u EXCEPT !.nodes = ns2,
                                                      !.last_new_node = split_node,
                                                      !.undefined = undefined],
                                            pos),
                           sq, pos, freed_outcome)

\* lines 711-773: _extend_tree_local(0, pos) on the tree t, sq being the whole
\* token vector (line 693 stores it before the loop)
_extend_tree_local(t, sq, pos, freed_outcome) ==
    ExtendLoop_local([nodes |-> t.nodes,
                      state |-> [t.state EXCEPT !.remaining_suffixes = @ + 1],
                      last_new_node |-> Null,
                      undefined |-> t.undefined,
                      stop |-> "none"], sq, pos, freed_outcome)

\* lines 833-849: the table after _update_node_counts_local(_root.get()): a
\* node without children gets 1, another node the sum of its children
_update_node_counts_local(ns) ==
    LET visited == Visited(ns, Root)
    IN [n \in DOMAIN ns |->
           IF n \in visited THEN [ns[n] EXCEPT !.count = CountOf(ns, n)]
           ELSE ns[n]]

\* the orders in which `for (... : local_node->children)` (line 664) can go
\* through an unordered_map
IterationOrders == {"ascending", "descending"}
RECURSIVE Reverse(_)
Reverse(q) == IF q = <<>> THEN <<>> ELSE Append(Reverse(Tail(q)), Head(q))
KeysInOrder(S, order) ==
    IF order = "ascending" THEN SortedKeys(S) ELSE Reverse(SortedKeys(S))

\* lines 638-680. acc is [nodes, node_map, ret]: the shared nodes made so far
\* (a NodePtr is an index of `nodes`), the map from LocalNode to NodePtr, and
\* the NodePtr returned.
RECURSIVE _copy_local_tree_to_shared(_, _, _, _)
RECURSIVE CopyChildren(_, _, _, _, _, _)
_copy_local_tree_to_shared(lns, local_node, acc, order) ==
    IF local_node = Null THEN [acc EXCEPT !.ret = Null]
    ELSE IF local_node \in DOMAIN acc.node_map
    THEN [acc EXCEPT !.ret = acc.node_map[local_node]]
    ELSE
    LET shared_node == Len(acc.nodes) + 1
        ln == lns[local_node]
        a1 == [nodes |-> Append(acc.nodes,
                                [NewNode EXCEPT !.count = ln.count,
                                                !.seq_id = ln.seq_id,
                                                !.start = ln.start,
                                                !.length = ln.length]),
               node_map |-> MapPut(acc.node_map, local_node, shared_node),
               ret |-> Null]
        a2 == CopyChildren(lns, ln.children,
                           KeysInOrder(DOMAIN ln.children, order), a1,
                           shared_node, order)
        a3 == IF ln.suffix_link # Null /\ ln.suffix_link \in DOMAIN a2.node_map
              THEN [a2 EXCEPT !.nodes[shared_node].suffix_link =
                                  a2.node_map[ln.suffix_link]]
              ELSE a2
    IN [a3 EXCEPT !.ret = shared_node]
CopyChildren(lns, children, keys, acc, shared_node, order) ==
    IF keys = <<>> THEN acc
    ELSE LET token == Head(keys)
             a1 == _copy_local_tree_to_shared(lns, children[token], acc, order)
             shared_child == a1.ret
             a2 == [a1 EXCEPT !.nodes[shared_node].children =
                                  MapPut(@, token, shared_child),
                              !.nodes[shared_child].parent = shared_node]
         IN CopyChildren(lns, children, Tail(keys), a2, shared_node, order)

\* lines 110-115 and 683-698: extend_from_local(0, toks) on a tree that was
\* constructed and never extended; with no token it returns at once (line
\* 111), else LocalSuffixTree::extend makes the local root and its state
extend_from_local_begin(toks) ==
    /\ tpc = "idle"
    /\ tokens' = toks
    /\ arena' = Constructed
    /\ IF toks = <<>>
       THEN /\ tpc' = "built"
            /\ UNCHANGED local_tree
       ELSE /\ tpc' = "local"
            /\ local_tree' = [NoLocalTree EXCEPT !.nodes = <<LocalRootNode>>]
    /\ UNCHANGED <<request, seqs, nodes, ukkonen_state, spec>>
    /\ UNCHANGED <<serverVars, clientVars, mutex, fanoutVars, uploadVars, lifeVars>>

\* lines 701-703: one iteration of `for (int pos = 0; ...)`
LocalSuffixTree_extend_token ==
    /\ tpc = "local"
    /\ local_tree.pos < Len(tokens)
    /\ \E freed_outcome \in FreedNodeOutcomes, null_outcome \in NullLinkOutcomes :
          LET u == _extend_tree_local(local_tree, tokens, local_tree.pos,
                                      freed_outcome)
          IN /\ local_tree' = [nodes |-> u.nodes, state |-> u.state,
                               pos |-> local_tree.pos + 1,
                               undefined |-> u.undefined]
             /\ tpc' = IF u.stop = "use after free" THEN "crashed"
                       ELSE IF u.stop = "null suffix link"
                            THEN (IF null_outcome = "crash" THEN "crashed"
                                  ELSE "undefined")
                       ELSE IF local_tree.pos + 1 = Len(tokens) THEN "local count"
                       ELSE "local"
    /\ UNCHANGED <<request, tokens, seqs, nodes, ukkonen_state, arena, spec>>
    /\ UNCHANGED <<serverVars, clientVars, mutex, fanoutVars, uploadVars, lifeVars>>

\* lines 705-708: the count pass that ends LocalSuffixTree::extend
LocalSuffixTree_update_node_counts ==
    /\ tpc = "local count"
    /\ local_tree' = [local_tree EXCEPT !.nodes = _update_node_counts_local(@)]
    /\ tpc' = "copy"
    /\ UNCHANGED <<request, tokens, seqs, nodes, ukkonen_state, arena, spec>>
    /\ UNCHANGED <<serverVars, clientVars, mutex, fanoutVars, uploadVars, lifeVars>>

\* lines 117-137: the bulk block, the sequence, the copy of the local tree
\* with the root's suffix link, and the destruction of the LocalSuffixTree at
\* the end of the function, which deletes every node a split has deleted
\* before a second time
extend_from_local_copy ==
    /\ tpc = "copy"
    /\ \E order \in IterationOrders, freed_outcome \in FreedNodeOutcomes :
          LET copy == _copy_local_tree_to_shared(local_tree.nodes, Root,
                         [nodes |-> <<>>, node_map |-> <<>>, ret |-> Null], order)
              twice == "use after free" \in local_tree.undefined
          IN /\ seqs' = tokens
             /\ nodes' = [copy.nodes EXCEPT ![copy.ret].suffix_link = copy.ret]
             /\ arena' = [arena EXCEPT !.memory_block = 1, !._seqs = 1,
                                       !.children = ChildrenEntries(nodes', 1)]
             /\ local_tree' = IF twice
                              THEN [local_tree EXCEPT !.undefined =
                                                          @ \cup {"double free"}]
                              ELSE local_tree
             /\ tpc' = IF twice /\ freed_outcome = "crash" THEN "crashed"
                       ELSE "built"
    /\ UNCHANGED <<request, tokens, ukkonen_state, spec>>
    /\ UNCHANGED <<serverVars, clientVars, mutex, fanoutVars, uploadVars, lifeVars>>

\* ---- the requests and the speculate calls of SpecTree
\* token ids of the bounded requests
TOKENS == {1, 2}
\* a token that occurs in no bounded request
OtherTokens == {0}

\* the lists of responses with Len(r) + 1 summing up to w
RECURSIVE ResponseLists(_)
ResponseLists(w) ==
    IF w = 0 THEN {<<>>}
    ELSE UNION {{<<r>> \o rest : r \in [1..(k - 1) -> TOKENS],
                                 rest \in ResponseLists(w - k)} : k \in 1..w}

\* every UpdateCacheRequest over TOKENS whose prompt and responses (each
\* response counted with its terminator) hold at most MaxRequestTokens tokens
BoundedRequests ==
    UNION {{[prompt |-> p, responses |-> rs] :
               p \in [1..n -> TOKENS],
               rs \in UNION {ResponseLists(w) : w \in 0..(MaxRequestTokens - n)}} :
           n \in 0..MaxRequestTokens}

\* the requests of the documented scenarios, requests with a prompt of
\* four tokens and more that is bridged into one and two responses, and
\* requests whose responses go on differently, in two and in three ways,
\* behind a context of four tokens
ScenarioRequests ==
    {[prompt |-> <<10, 11, 12>>, responses |-> <<<<20, 21, 22, 23>>>>],
     [prompt |-> <<1>>, responses |-> <<<<5, 6>>, <<5, 7>>, <<5, 6>>>>],
     [prompt |-> <<1, 2, 3, 4>>, responses |-> <<<<99, 100>>>>],
     [prompt |-> <<1, 2, 3, 4>>, responses |-> <<<<5>>, <<6, 7>>>>],
     [prompt |-> <<1, 2, 3, 4, 5, 6>>, responses |-> <<<<7>>, <<7, 8>>>>],
     [prompt |-> <<9>>, responses |-> <<<<1, 2, 3, 4, 6>>, <<1, 2, 3, 4, 7>>,
                                        <<1, 2, 3, 4, 7>>>>],
     [prompt |-> <<9>>, responses |-> <<<<1, 2, 3, 4, 5>>, <<1, 2, 3, 4, 6>>,
                                        <<1, 2, 3, 4, 7>>>>]}

Requests == BoundedRequests \cup ScenarioRequests

\* the patterns of the speculate calls on a tree over the sequence sq: its
\* windows of three to five tokens, the windows of four tokens behind or in
\* front of a token the tree does not hold, and the empty pattern; for the
\* tree of a request without tokens, a pattern of four tokens
Windows(sq, n) == {SubSeq(sq, i, i + n - 1) : i \in 1..(Len(sq) - n + 1)}
Patterns(sq) ==
    {<<>>} \cup Windows(sq, 3) \cup Windows(sq, 4) \cup Windows(sq, 5)
        \cup {<<x>> \o w : x \in OtherTokens, w \in Windows(sq, 4)}
        \cup {w \o <<x>> : x \in OtherTokens, w \in Windows(sq, 4)}
        \cup (IF sq = <<>> THEN {<<x, x, x, x>> : x \in OtherTokens} ELSE {})
MaxSpecTokens == {SPEC_START_LEN, SPEC_MAX_LEN}
MinTokenProbs == {<<0, 1>>, <<1, 2>>}

\* ---------------------------------------------------------- specifications
InitData(updaters, trees, requests) ==
    /\ request \in requests
    /\ tokens = <<>>
    /\ seqs = <<>>
    /\ nodes = <<>>
    /\ ukkonen_state = NewUkkonenState
    /\ tpc = IF requests = {NoRequest} THEN "idle" ELSE "request"
    /\ arena = NoMemory
    /\ spec = NoCall
    /\ tree_map = <<>>
    /\ treeState = [T \in trees |-> "free"]
    /\ mutex = 0
    /\ upc = [t \in updaters |-> "idle"]
    /\ utree = [t \in updaters |-> Null]
    /\ uhash = [t \in updaters |-> 0]
    /\ uexisting = [t \in updaters |-> Null]
    /\ published = <<>>
    /\ returned = {}
    /\ response = [T \in trees |-> "none"]
    /\ replacedBy = [T \in trees |-> Null]
    /\ destroyedBy = [T \in trees |-> <<>>]
    /\ lockedDestroy = FALSE
    /\ req_id_to_responses_ = <<>>
    /\ req_id_to_spec_len_ = <<>>
    /\ fetch_req_ids = <<>>
    /\ req_hashes = <<>>
    /\ last = [op |-> "none", status |-> "done"]
    /\ fpc = "idle"
    /\ requests_size = 0
    /\ call_data_list = <<>>
    /\ cq = {}
    /\ completed = 0
    /\ logged = {}
    /\ received = [pair \in stubs_ \X (0..(MaxUpdateRequests - 1)) |-> 0]
    /\ prompt_hash_to_uploaded_len_ = <<>>
    /\ uploads = <<>>
    /\ server_calls = <<>>
    /\ local_tree = NoLocalTree

\* the server has run Initialize and the client has attached to its segment
InitWith(updaters, trees, requests) ==
    /\ InitData(updaters, trees, requests)
    /\ live = stubs_
    /\ segment_ = TRUE
    /\ shm = {Segment} \cup NamedObjects
    /\ shared_memory_segment_ = TRUE
    /\ shared_tree_map_ = TRUE
    /\ qpc = "idle"

\* Spec: the handler threads of the server, and a client that fetches,
\* speculates on and evicts one request.
Init == InitWith(Updaters, 1..MaxTrees, {NoRequest})

Next ==
    \/ \E t \in DOMAIN upc : UpdateCache(t)
    \/ \E p \in Prompts : fetch_responses_by_prompts_batch(<<1>>, <<p>>)
    \/ fetch_lock
    \/ fetch_lookups
    \/ evict_responses(1)
    \/ speculate(<<1>>, <<"p">>)

Spec == Init /\ [][Next]_vars

\* SpecServer: the lifetime of the server, from Initialize over the
\* UpdateCache calls of two handler threads to Shutdown.
NextServer ==
    \/ \E t \in DOMAIN upc : UpdateCache(t)
    \/ Shutdown

SpecServer == Init /\ [][NextServer]_vars

\* SpecLocal: one call of extend_from_local on a new tree, step by step: the
\* local build token by token, its count pass, and the copy into the tree.
LocalTokens == {1, 2, 3}
RECURSIVE TokenVectors(_)
TokenVectors(n) ==
    IF n = 0 THEN {<<>>}
    ELSE TokenVectors(n - 1) \cup
         {Append(v, x) : v \in {w \in TokenVectors(n - 1) : Len(w) = n - 1},
                         x \in LocalTokens}

InitLocal == InitWith({}, {}, {NoRequest})

NextLocal ==
    \/ \E toks \in TokenVectors(MaxLocalTokens) : extend_from_local_begin(toks)
    \/ LocalSuffixTree_extend_token
    \/ LocalSuffixTree_update_node_counts
    \/ extend_from_local_copy

SpecLocal == InitLocal /\ [][NextLocal]_vars

\* SpecLifetime: one RolloutCacheServer object from its constructor on:
\* Initialize (which may fail), the UpdateCache calls of a handler thread
\* while the server is up, and Shutdown any number of times, the last of
\* them being the destructor's.
InitLifetime ==
    /\ InitData({1}, 1..MaxTrees, {NoRequest})
    /\ segment_ = FALSE
    /\ shm = {}
    /\ shared_memory_segment_ = FALSE
    /\ shared_tree_map_ = FALSE
    /\ qpc = "none"
    /\ live = stubs_

NextLifetime ==
    \/ Initialize
    \/ Initialize_failed
    \/ \E t \in DOMAIN upc : UpdateCache(t)
    \/ Shutdown
    \/ Shutdown_null_segment

SpecLifetime == InitLifetime /\ [][NextLifetime]_vars

\* SpecAttach: the server and the client start side by side: Initialize
\* sets up shared memory step by step, the client constructs its SuffixCache
\* at any moment and then fetches.
InitAttach ==
    /\ InitData({1}, 1..MaxQueryTrees, {NoRequest})
    /\ segment_ = FALSE
    /\ shm = {}
    /\ shared_memory_segment_ = FALSE
    /\ shared_tree_map_ = FALSE
    /\ qpc = "none"
    /\ live = stubs_

NextAttach ==
    \/ Initialize_segment
    \/ Initialize_mutex
    \/ Initialize_tree_map
    \/ \E t \in DOMAIN upc : UpdateCache(t)
    \/ SuffixCache_construct
    \/ \E req_ids \in {<<>>, <<1>>, <<1, 2>>} : \E prompts \in [1..Len(req_ids) -> Prompts] :
          fetch_responses_by_prompts_batch(req_ids, prompts)
    \/ fetch_lock
    \/ fetch_lookups
    \/ \E r \in Reqs : evict_responses(r)

SpecAttach == InitAttach /\ [][NextAttach]_vars

\* SpecFanout: one update call of the fan-out client to two endpoints, any
\* of which may be down. Every call that has been started is finished by
\* gRPC at some time (an endpoint that is down fails the call), and the
\* client keeps running.
InitFanout ==
    /\ InitData({}, {}, {NoRequest})
    /\ segment_ = TRUE
    /\ shm = {Segment} \cup NamedObjects
    /\ shared_memory_segment_ = TRUE
    /\ shared_tree_map_ = TRUE
    /\ qpc = "idle"
    /\ live \in SUBSET stubs_

NextFanout ==
    \/ \E n \in 0..MaxUpdateRequests : update_response_cache(n)
    \/ AsyncUpdateCache
    \/ \E k \in DOMAIN call_data_list : Finish(k)
    \/ cq_Next
    \/ update_return

SpecFanout == InitFanout /\ [][NextFanout]_vars /\ WF_vars(NextFanout)

\* SpecUpload: the update client prepares the requests of up to
\* MaxUpdateCalls calls of update_response_cache, each for 1 to
\* MaxUpdateRequests prompts of up to MaxPromptSize tokens; a prompt_length
\* is a length of the prompt from 1 on, or one more than its size.
PromptTokens == {1, 2}
UploadPrompts == UNION {[1..n -> PromptTokens] : n \in 1..MaxPromptSize}
UploadInputs ==
    {[prompt |-> p, prompt_length |-> l] : p \in UploadPrompts, l \in 1..(MaxPromptSize + 1)}
UploadBatches ==
    UNION {[1..n -> {in \in UploadInputs : in.prompt_length <= Len(in.prompt) + 1}] :
              n \in 1..MaxUpdateRequests}

InitUpload == InitFanout /\ live = stubs_

NextUpload == \E inputs \in UploadBatches : update_response_cache_requests(inputs)

SpecUpload == InitUpload /\ [][NextUpload]_vars

\* SpecQuery: one handler thread, and a client that uses every operation of
\* SuffixCache on batches of up to two requests.
InitQuery == InitWith({1}, 1..MaxQueryTrees, {NoRequest})

\* the batches the client sends: every request alone, both together, one
\* request twice, and the empty batch
Batches == {<<>>, <<1>>, <<2>>, <<1, 2>>, <<2, 1>>, <<1, 1>>}
\* the prompts sent with a batch: one prompt per request, or one too few
TooFewPromptsFor(req_ids) ==
    IF req_ids = <<>> THEN {} ELSE {[i \in 1..(Len(req_ids) - 1) |-> 1]}
PromptsFor(req_ids) ==
    [1..Len(req_ids) -> Prompts] \cup TooFewPromptsFor(req_ids)
PatternsFor(req_ids) == [1..Len(req_ids) -> {"", "p"}]

NextQuery ==
    \/ \E t \in DOMAIN upc : UpdateCache(t)
    \/ \E req_ids \in Batches : \E prompts \in PromptsFor(req_ids) :
          fetch_responses_by_prompts_batch(req_ids, prompts)
    \/ fetch_lock
    \/ fetch_lookups
    \/ \E r \in Reqs, v \in ValidLens : update_spec_len(r, v)
    \/ \E r \in Reqs : evict_responses(r)
    \/ \E req_ids \in Batches : \E patterns \in PatternsFor(req_ids) :
          speculate(req_ids, patterns)

SpecQuery == InitQuery /\ [][NextQuery]_vars

\* SpecTree: the tree of one UpdateCache request is assembled, extended token
\* by token, counted, and then queried by speculate calls.
InitTree == InitWith({}, {}, Requests)

NextTree ==
    \/ UpdateCache_tokens
    \/ SuffixTree_extend_token
    \/ SuffixTree_update_node_counts
    \/ \E pattern \in Patterns(seqs), max_spec_tokens \in MaxSpecTokens,
          min_token_prob \in MinTokenProbs, use_tree_spec \in BOOLEAN :
          SuffixTree_speculate_call(pattern, max_spec_tokens, min_token_prob,
                                    use_tree_spec)
    \/ SuffixTree_speculate_return
    \/ SuffixTree_destroy

SpecTree == InitTree /\ [][NextTree]_vars

\* ================================================================ claims
\* ---------------------------------------------------------------- Spec
\* the trees published for hash h, in the order of their publication
RECURSIVE PublishedFor(_, _)
PublishedFor(h, i) ==
    IF i > Len(published) THEN <<>>
    ELSE IF published[i].hash = h
         THEN <<published[i].tree>> \o PublishedFor(h, i + 1)
         ELSE PublishedFor(h, i + 1)

Quiescent == \A t \in DOMAIN upc : upc[t] = "idle"

\* C1: once an UpdateCache call that published tree T for hash h has
\* returned, a registry lookup of h yields T or a tree published for h after
\* T; it never yields an older tree and never "absent".
C1_LookupAfterReturn ==
    \A T \in returned :
        \E i \in DOMAIN published :
            /\ published[i].tree = T
            /\ \E j \in i..Len(published) :
                  published[j] = [tree |-> Lookup(tree_map, published[i].hash),
                                  hash |-> published[i].hash]

\* a call that replaced an older tree has returned and a later call has
\* already replaced its tree in turn
C1_Witness ==
    \E T1, T2, T3 \in TreeIds :
        /\ T2 \in returned
        /\ replacedBy[T1] = T2
        /\ replacedBy[T2] = T3
        /\ \E h \in Hashes : Lookup(tree_map, h) = T3

\* C2 as stated: no speculate call runs on a destroyed tree, whatever the
\* interleaving of fetch, speculate, evict_responses and UpdateCache.
C2_NeverDerefFreed ==
    last.op = "speculate" =>
        \A i \in DOMAIN last.slots : last.slots[i].kind # "uaf"

\* C2 amended: a cached tree_ref refers to a destroyed tree only when a later
\* UpdateCache for the same prompt_hash has replaced that tree in the registry
\* since the fetch (a stale tree_ref), and only such a tree_ref makes speculate
\* run on a destroyed tree.
C2_OnlyStaleRefDangles ==
    /\ \A r \in DOMAIN req_id_to_responses_ :
          LET T == req_id_to_responses_[r]
          IN (T # Null /\ treeState[T] # "built") =>
                 /\ replacedBy[T] # Null
                 /\ \A h \in DOMAIN tree_map : tree_map[h] # T
    /\ last.op = "speculate" =>
          \A i \in DOMAIN last.slots :
              last.slots[i].kind = "uaf" => replacedBy[last.slots[i].tree] # Null

\* speculate has run on a stale tree_ref: the tree was replaced and destroyed
\* by a call that has returned since the fetch
C2_Witness ==
    /\ last.op = "speculate"
    /\ last.slots[1].kind = "uaf"
    /\ replacedBy[last.slots[1].tree] \in returned

\* C3: every registry entry refers to a tree whose construction has completed
\* and which has not been destroyed.
C3_RegistryTreesBuilt ==
    \A h \in DOMAIN tree_map : treeState[tree_map[h]] = "built"

\* the registry holds a tree while another one is under construction and a
\* third one has been destroyed
C3_Witness ==
    /\ \E h \in DOMAIN tree_map : treeState[tree_map[h]] = "built"
    /\ \E T \in TreeIds : treeState[T] = "constructed"
    /\ \E T \in TreeIds : treeState[T] = "destroyed"

C5_NoTerminatorReturned ==
    spec.outcome = "returned" =>
        \A i \in DOMAIN spec.result.token_ids :
            spec.result.token_ids[i] # Terminator

\* a tree-mode call on the tree of prompt 10 11 12 / response 20 21 22 23,
\* pattern 10 11 12 20, has returned a list that ends with the terminator
C5_Witness ==
    /\ spec.outcome = "returned"
    /\ spec.use_tree_spec
    /\ spec.pattern = <<10, 11, 12, 20>>
    /\ spec.result.token_ids = <<21, 22, 23, Terminator>>

\* C6 as stated: in path mode and in tree mode no returned token comes from
\* behind a terminator that follows the match, i.e. no returned token has
\* the terminator as its parent token.
C6_NeverCrossesTerminator ==
    spec.outcome = "returned" =>
        \A i \in DOMAIN spec.result.token_ids :
            spec.result.parents[i] >= 0 =>
                At(spec.result.token_ids, spec.result.parents[i]) # Terminator

\* a tree-mode call whose pattern ends in the tail of the first response has
\* returned the terminator and, behind it, the bridge prefix and the tokens
\* of the second response
C6_Witness ==
    /\ spec.outcome = "returned"
    /\ request = [prompt |-> <<1, 2, 3, 4>>, responses |-> <<<<5>>, <<6, 7>>>>]
    /\ spec.pattern = <<2, 3, 4, 5>>
    /\ spec.result.token_ids = <<Terminator, 1, 2, 3, 4, 6, 7, Terminator>>
    /\ spec.result.parents = <<-1, 0, 1, 2, 3, 4, 5, 6>>

\* ----------------------------------------------------------- SpecQuery
\* C7 as stated: a slot that fails (unknown req_id, no spec_len) does not
\* abort the batch; every slot that ran on its tree is in the returned list.
C7_SlotErrorConfined ==
    last.op = "speculate" =>
        \A i \in DOMAIN last.slots :
            last.slots[i].kind = "spec" =>
                /\ last.status = "returned"
                /\ i \in DOMAIN last.results
                /\ last.results[i] = last.slots[i]

\* the position of the last occurrence of r in the sequence ids
LastIndexOf(ids, r) ==
    CHOOSE i \in DOMAIN ids :
        ids[i] = r /\ \A j \in DOMAIN ids : ids[j] = r => j <= i

\* C8: every speculation length lies in SPEC_START_LEN..SPEC_MAX_LEN.
C8_SpecLenInRange ==
    \A r \in DOMAIN req_id_to_spec_len_ :
        /\ SPEC_START_LEN <= req_id_to_spec_len_[r]
        /\ req_id_to_spec_len_[r] <= SPEC_MAX_LEN

\* one request has been driven up to SPEC_MAX_LEN and held there, the other
\* one is at SPEC_START_LEN
C8_Witness ==
    /\ last.op = "update_spec_len" /\ last.status = "done"
    /\ last.valid_len = 17
    /\ req_id_to_spec_len_[last.req_id] = SPEC_MAX_LEN
    /\ \E r \in DOMAIN req_id_to_spec_len_ :
          req_id_to_spec_len_[r] = SPEC_START_LEN

\* C9: update_spec_len(r, v) on a known r with current value c sets the
\* length to min(2c, 16) when v > c and to max(c div 2, 2) otherwise, and
\* changes nothing else; on an unknown r it changes no state. From 2 the
\* calls with 5, 10, 1 give 4, 8, 4 and small v clamp at 2.
C9_UpdateSpecLen ==
    [][last'.op = "update_spec_len" =>
       \A r \in {last'.req_id}, v \in {last'.valid_len} :
          update_spec_len(r, v) =>
              /\ req_id_to_responses_' = req_id_to_responses_
              /\ IF r \in DOMAIN req_id_to_spec_len_
                 THEN LET c == req_id_to_spec_len_[r]
                      IN /\ DOMAIN req_id_to_spec_len_' = DOMAIN req_id_to_spec_len_
                         /\ \A q \in DOMAIN req_id_to_spec_len_ \ {r} :
                               req_id_to_spec_len_'[q] = req_id_to_spec_len_[q]
                         /\ v > c => req_id_to_spec_len_'[r] =
                                        (IF 2 * c < 16 THEN 2 * c ELSE 16)
                         /\ v <= c => req_id_to_spec_len_'[r] =
                                        (IF c \div 2 > 2 THEN c \div 2 ELSE 2)
                         /\ (c = 2 /\ v = 5) => req_id_to_spec_len_'[r] = 4
                         /\ (c = 4 /\ v = 10) => req_id_to_spec_len_'[r] = 8
                         /\ (c = 8 /\ v = 1) => req_id_to_spec_len_'[r] = 4
                         /\ (c = 2 /\ v = 1) => req_id_to_spec_len_'[r] = 2
                 ELSE req_id_to_spec_len_' = req_id_to_spec_len_]_vars

\* update_spec_len(r, 1) has halved 8 to 4 (the third call of 5, 10, 1)
C9_Witness ==
    /\ last.op = "update_spec_len" /\ last.status = "done"
    /\ last.valid_len = 1
    /\ req_id_to_spec_len_[last.req_id] = 4

\* C10: evict_responses(r) removes r from both maps and touches neither the
\* registry nor the trees nor the mutex; a fetch that follows it with r in the
\* batch reads the registry for the prompt sent with r and sets the
\* speculation length of r to SPEC_START_LEN, whatever it was before.
C10_EvictThenFetch ==
    [][/\ last'.op = "evict_responses" =>
          \A r \in {last'.req_id} :
            evict_responses(r) =>
                /\ DOMAIN req_id_to_responses_' = DOMAIN req_id_to_responses_ \ {r}
                /\ DOMAIN req_id_to_spec_len_' = DOMAIN req_id_to_spec_len_ \ {r}
                /\ \A q \in DOMAIN req_id_to_responses_' :
                      req_id_to_responses_'[q] = req_id_to_responses_[q]
                /\ \A q \in DOMAIN req_id_to_spec_len_' :
                      req_id_to_spec_len_'[q] = req_id_to_spec_len_[q]
                /\ UNCHANGED <<tree_map, treeState, mutex>>
       /\ (last.op = "evict_responses" /\ qpc' = "fetch_lock") =>
          \A req_ids \in Batches : \A prompts \in PromptsFor(req_ids) :
            (/\ fetch_responses_by_prompts_batch(req_ids, prompts)
             /\ Evicted(req_ids)[1] # 0) =>
                LET r == Evicted(req_ids)[1]
                IN /\ req_id_to_spec_len_'[r] = SPEC_START_LEN
                   /\ \E i \in DOMAIN fetch_req_ids' : fetch_req_ids'[i] = r
                   /\ req_hashes'[LastIndexOf(fetch_req_ids', r)] =
                          XXH64(prompts[LastIndexOf(req_ids, r)])
       /\ (qpc = "fetch_locked" /\ fetch_lookups /\ last.pre[1] # 0) =>
            LET r == last.pre[1]
            IN /\ \E i \in DOMAIN fetch_req_ids : fetch_req_ids[i] = r
               /\ r \in DOMAIN req_id_to_responses_'
               /\ req_id_to_responses_'[r] =
                      Lookup(tree_map, req_hashes[LastIndexOf(fetch_req_ids, r)])
               /\ r \in DOMAIN req_id_to_spec_len_'
               /\ req_id_to_spec_len_'[r] = SPEC_START_LEN
      ]_vars

\* a request evicted at speculation length 16 has been fetched again: it is
\* back at SPEC_START_LEN and its tree_ref is the registry's tree
C10_Witness ==
    /\ last.op = "fetch" /\ last.status = "done"
    /\ last.pre = <<1, SPEC_MAX_LEN>>
    /\ 1 \in DOMAIN req_id_to_spec_len_
    /\ req_id_to_spec_len_[1] = SPEC_START_LEN
    /\ req_id_to_responses_[1] # Null
    /\ \E h \in DOMAIN tree_map : tree_map[h] = req_id_to_responses_[1]

\* C11: a fetch leaves the tree_ref and the speculation length of every
\* request that already has a tree_ref entry as they are, whatever the
\* registry holds now; exactly the requests of the batch without an entry get
\* the speculation length SPEC_START_LEN and, under the lock, the registry's
\* tree for their prompt or null.
C11_FetchFrame ==
    [][/\ (qpc = "idle" /\ qpc' = "fetch_lock") =>
              /\ req_id_to_responses_' = req_id_to_responses_
              /\ mutex' = mutex
              /\ InBatch(fetch_req_ids') =
                     last'.batch \ DOMAIN req_id_to_responses_
              /\ DOMAIN req_id_to_spec_len_' =
                     DOMAIN req_id_to_spec_len_ \cup InBatch(fetch_req_ids')
              /\ \A r \in DOMAIN req_id_to_spec_len_' :
                     req_id_to_spec_len_'[r] =
                        IF r \in InBatch(fetch_req_ids') THEN SPEC_START_LEN
                        ELSE req_id_to_spec_len_[r]
       /\ (qpc = "fetch_locked" /\ qpc' = "idle") =>
              /\ req_id_to_spec_len_' = req_id_to_spec_len_
              /\ DOMAIN req_id_to_responses_' =
                     DOMAIN req_id_to_responses_ \cup InBatch(fetch_req_ids)
              /\ \A r \in DOMAIN req_id_to_responses_ :
                     /\ r \notin InBatch(fetch_req_ids)
                     /\ req_id_to_responses_'[r] = req_id_to_responses_[r]
              /\ \A r \in InBatch(fetch_req_ids) :
                     req_id_to_responses_'[r] =
                        Lookup(tree_map, req_hashes[LastIndexOf(fetch_req_ids, r)])
      ]_vars

\* a fetch has completed for a request that was fetched before the tree of
\* its prompt was published and was driven to SPEC_MAX_LEN: it keeps its
\* null tree_ref and its length although the registry holds a tree now
C11_Witness ==
    /\ last.op = "fetch" /\ last.status = "done"
    /\ 1 \in last.stale
    /\ req_id_to_responses_[1] = Null
    /\ req_id_to_spec_len_[1] = SPEC_MAX_LEN
    /\ tree_map # <<>>

\* C12: a fetch whose req_ids and prompts differ in number reports the
\* mismatch and returns: both maps are as before and the call is over without
\* having come to the step that takes the registry mutex.
C12_MismatchReturns ==
    [][(last' # last /\ last'.op = "fetch" /\ last'.status = "mismatch") =>
          \A req_ids \in Batches : \A prompts \in TooFewPromptsFor(req_ids) :
            fetch_responses_by_prompts_batch(req_ids, prompts) =>
                /\ req_id_to_responses_' = req_id_to_responses_
                /\ req_id_to_spec_len_' = req_id_to_spec_len_
                /\ mutex' = mutex
                /\ qpc' = "idle"
      ]_vars

\* a mismatched fetch has returned while a handler thread of the server holds
\* the mutex, with both maps non-empty
C12_Witness ==
    /\ last.op = "fetch" /\ last.status = "mismatch"
    /\ mutex \in Updaters
    /\ qpc = "idle"
    /\ DOMAIN req_id_to_responses_ # {}
    /\ DOMAIN req_id_to_spec_len_ # {}

\* slot i of a speculate call has an empty pattern or a null tree_ref
QuietSlot(i) ==
    \/ last.patterns[i] = ""
    \/ /\ last.req_ids[i] \in DOMAIN req_id_to_responses_
       /\ req_id_to_responses_[last.req_ids[i]] = Null

LastTokens(p, n) == [i \in 1..Min(n, Len(p)) |-> p[Len(p) - Min(n, Len(p)) + i]]

\* the composite layout: prefix R_i -1 for the responses from i on
RECURSIVE LayoutResponses(_, _, _)
LayoutResponses(prefix, responses, i) ==
    IF i > Len(responses) THEN <<>>
    ELSE prefix \o responses[i] \o <<-1>> \o LayoutResponses(prefix, responses, i + 1)

\* the composite layout P -1 prefix R_0 -1 prefix R_1 -1 ...
Layout(req) ==
    req.prompt \o <<-1>> \o LayoutResponses(LastTokens(req.prompt, 5), req.responses, 1)

\* C14: the token stream UpdateCache feeds to the tree is the composite
\* layout of the request: the prompt, -1, and then each response behind the
\* last min(5, |prompt|) tokens of the prompt and followed by -1, for every
\* request, those with an empty prompt or no responses included.
C14_ExactLayout ==
    tpc # "request" => tokens = Layout(request)

\* the stream is the layout whenever the prompt is not empty
C14_LayoutOfNonEmptyPrompt ==
    (tpc # "request" /\ request.prompt # <<>>) => tokens = Layout(request)

\* a request with an empty prompt and one response has been turned into a
\* stream that does not start with -1, and a request with neither prompt nor
\* responses has left a tree without a root
C14_Witness ==
    /\ tpc = "built"
    /\ request.prompt = <<>>
    /\ tokens # Layout(request)
    /\ \/ request.responses # <<>> /\ tokens[1] # -1
       \/ request.responses = <<>> /\ tokens = <<>> /\ nodes = <<>>

\* the trees that have been put into the registry
PublishedTrees == {published[i].tree : i \in DOMAIN published}

\* C15: a call whose bulk allocation failed has answered success = false and
\* its tree never came into the registry; and a call has answered
\* success = true exactly when it is over and its tree was built and published.
C15_FailureResponds ==
    \A T \in TreeIds :
        /\ treeState[T] = "unbuilt" =>
              /\ response[T] = "failure"
              /\ T \notin PublishedTrees
              /\ \A h \in DOMAIN tree_map : tree_map[h] # T
        /\ response[T] = "success" <=>
              /\ response[T] # "none"
              /\ treeState[T] \in {"built", "destroyed"}
              /\ T \in PublishedTrees

\* what does hold: the tree of a failed call never comes into the registry,
\* and success = true is answered only for a tree that was built and published
C15_SuccessOnlyIfPublished ==
    \A T \in TreeIds :
        /\ treeState[T] = "unbuilt" =>
              /\ T \notin PublishedTrees
              /\ \A h \in DOMAIN tree_map : tree_map[h] # T
        /\ response[T] = "success" =>
              /\ treeState[T] \in {"built", "destroyed"}
              /\ T \in PublishedTrees

\* a call whose allocation failed is over, left by the exception, with no
\* success = false answered; the registry holds the tree of an earlier call
C15_Witness ==
    \E T \in TreeIds : \E t \in DOMAIN upc :
        /\ treeState[T] = "unbuilt"
        /\ response[T] = "exception"
        /\ utree[t] = T /\ upc[t] = "idle"
        /\ tree_map # <<>>

\* the tokens on the way from the root to position idx of the edge into node
RECURSIVE PathLabel(_, _, _, _)
PathLabel(ns, sq, node, idx) ==
    IF node = Root THEN <<>>
    ELSE PathLabel(ns, sq, ns[node].parent, EdgeLength(ns, sq, ns[node].parent))
             \o SubSeq(sq, ns[node].start + 1, ns[node].start + idx)

\* the suffix of the sequence from position k (counted from 1), and where
\* matching it from the root ends
Suffix(k) == SubSeq(seqs, k, Len(seqs))
MatchEnd(k) == _match_pattern(nodes, seqs, Suffix(k), 0)

\* C16: in the tree of every sequence (that of a finished build and that of
\* every step of the build) each suffix of the sequence matches from the
\* root: the match ends at a position inside the edge into a node or at its
\* end, and the tokens from the root to that position are the suffix, all
\* |s| of them.
C16_EverySuffixMatches ==
    nodes # <<>> =>
        \A k \in 1..Len(seqs) :
            LET m == MatchEnd(k)
            IN /\ m[1] # Null
               /\ m[1] \in DOMAIN nodes /\ m[1] # Root
               /\ m[2] >= 1 /\ m[2] <= EdgeLength(nodes, seqs, m[1])
               /\ PathLabel(nodes, seqs, m[1], m[2]) = Suffix(k)
               /\ Len(PathLabel(nodes, seqs, m[1], m[2])) = Len(seqs) - k + 1

\* in a finished tree one suffix ends at a node with children, one inside the
\* edge into a leaf and one at the end of a leaf
C16_Witness ==
    /\ tpc = "built" /\ nodes # <<>>
    /\ \E k \in 1..Len(seqs) :
          /\ nodes[MatchEnd(k)[1]].children # <<>>
          /\ MatchEnd(k)[2] = EdgeLength(nodes, seqs, MatchEnd(k)[1])
    /\ \E k \in 1..Len(seqs) :
          /\ nodes[MatchEnd(k)[1]].children = <<>>
          /\ MatchEnd(k)[2] < EdgeLength(nodes, seqs, MatchEnd(k)[1])
    /\ \E k \in 1..Len(seqs) :
          /\ nodes[MatchEnd(k)[1]].children = <<>>
          /\ MatchEnd(k)[2] = EdgeLength(nodes, seqs, MatchEnd(k)[1])

\* the number of positions of the sequence at which label occurs
Occurrences(label) ==
    Cardinality({k \in 1..(Len(seqs) - Len(label) + 1) :
                    SubSeq(seqs, k, k + Len(label) - 1) = label})

\* the tokens from the root to the end of the edge into v
NodeLabel(v) == PathLabel(nodes, seqs, v, EdgeLength(nodes, seqs, v))

\* C17: in a finished tree the count of every node is the number of suffixes
\* of the sequence that pass through or end at it, i.e. the number of
\* occurrences of its path label in the sequence, and the count of the root
\* is the length of the sequence.
C17_CountIsOccurrences ==
    (tpc = "built" /\ nodes # <<>>) =>
        /\ nodes[Root].count = Len(seqs)
        /\ \A v \in Visited(nodes, Root) \ {Root} :
              nodes[v].count = Occurrences(NodeLabel(v))

\* the tree of prompt 1 with one empty response, tokens 1 -1 1 -1, is
\* finished: its root has count 2 and its two leaves hold the suffixes 1 -1 1 -1
\* and -1 1 -1, while the suffixes 1 -1 and -1 end inside their edges
C17_Witness ==
    /\ tpc = "built"
    /\ seqs = <<1, -1, 1, -1>>
    /\ nodes[Root].count = 2
    /\ \E v \in Visited(nodes, Root) \ {Root} :
          /\ NodeLabel(v) = <<1, -1, 1, -1>>
          /\ Occurrences(<<1, -1>>) = 2
          /\ nodes[v].count = 1

\* the sum of the counts of the children of v
RECURSIVE SumOfChildren(_, _)
SumOfChildren(v, keys) ==
    IF keys = {} THEN 0
    ELSE LET k == CHOOSE x \in keys : TRUE
         IN nodes[nodes[v].children[k]].count + SumOfChildren(v, keys \ {k})

\* C18: in a finished tree every node with children has the sum of its
\* children's counts as its count, and every node without children has
\* count 1.
C18_CountIsSumOfChildren ==
    (tpc = "built" /\ nodes # <<>>) =>
        \A v \in DOMAIN nodes :
            IF DOMAIN nodes[v].children = {}
            THEN nodes[v].count = 1
            ELSE nodes[v].count = SumOfChildren(v, DOMAIN nodes[v].children)

\* a finished tree with a node below the root that has children, and a root
\* whose count is more than the number of its children
C18_Witness ==
    /\ tpc = "built" /\ nodes # <<>>
    /\ \E v \in DOMAIN nodes \ {Root} :
          /\ Cardinality(DOMAIN nodes[v].children) >= 2
          /\ nodes[v].count >= 2
          /\ nodes[Root].count > Cardinality(DOMAIN nodes[Root].children)

\* the label of the edge into v, a leaf edge taken to the end of the sequence
EdgeLabel(v) ==
    SubSeq(seqs, nodes[v].start + 1, nodes[v].start + EdgeLength(nodes, seqs, v))

\* a label holds a -1 with a token behind it
Straddles(label) == \E i \in 1..(Len(label) - 1) : label[i] = -1

\* C19: in a finished tree no edge label straddles the terminator: no label
\* holds a -1 that is followed by further tokens.
C19_NoEdgeStraddlesTerminator ==
    (tpc = "built" /\ nodes # <<>>) =>
        \A v \in Visited(nodes, Root) \ {Root} : ~Straddles(EdgeLabel(v))

\* the finished tree of prompt 1 and responses 5 6, 5 7, 5 6 has a node with
\* children at the end of the edge -1 1 5 and a leaf edge that runs from the
\* 6 of the first response over two terminators to the end of the sequence
C19_Witness ==
    /\ tpc = "built"
    /\ request = [prompt |-> <<1>>, responses |-> <<<<5, 6>>, <<5, 7>>, <<5, 6>>>>]
    /\ \E v \in Visited(nodes, Root) \ {Root} :
          /\ EdgeLabel(v) = <<-1, 1, 5>>
          /\ nodes[v].children # <<>>
    /\ \E v \in Visited(nodes, Root) \ {Root} :
          /\ EdgeLabel(v) = <<6, -1, 1, 5, 7, -1, 1, 5, 6, -1>>
          /\ nodes[v].children = <<>>

\* the speculate call in `spec`: where the match of its pattern from
\* start_idx ends, the candidate of the chosen mode from there, and whether
\* start_idx is one the call can return from
CallMatch(start_idx) == _match_pattern(nodes, seqs, spec.pattern, start_idx)
CallCandidate(start_idx) ==
    IF spec.use_tree_spec
    THEN _speculate_tree(nodes, seqs, CallMatch(start_idx)[1], CallMatch(start_idx)[2],
                         spec.max_spec_tokens, spec.min_token_prob)
    ELSE _speculate_path(nodes, seqs, CallMatch(start_idx)[1], CallMatch(start_idx)[2],
                         spec.max_spec_tokens, spec.min_token_prob)
Usable(start_idx) ==
    /\ CallMatch(start_idx)[1] # Null
    /\ CallCandidate(start_idx).score[1] > 0

\* C20: a speculate call on a tree with a root returns the candidate of the
\* smallest start_idx in 0..len(pattern)-4 whose match succeeds and whose
\* candidate has a score above 0; with no such start_idx, and so for every
\* pattern of fewer than 4 tokens (on a tree without a root too), it returns
\* the empty candidate.
C20_FirstUsableStartIdx ==
    (spec # NoCall /\ spec.outcome = "returned"
        /\ (nodes # <<>> \/ Len(spec.pattern) < 4)) =>
        LET usable == {i \in 0..(Len(spec.pattern) - 4) : Usable(i)}
        IN IF usable = {}
           THEN spec.result = NewCandidate
           ELSE \E i \in usable :
                  /\ \A j \in usable : i <= j
                  /\ spec.result = CallCandidate(i)

\* a call with a pattern of five tokens has returned the candidate of
\* start_idx 1, start_idx 0 having no match, and that candidate holds tokens
C20_Witness ==
    /\ spec # NoCall /\ spec.outcome = "returned" /\ nodes # <<>>
    /\ Len(spec.pattern) = 5
    /\ CallMatch(0)[1] = Null
    /\ Usable(1)
    /\ spec.result = CallCandidate(1)
    /\ spec.result.token_ids # <<>>

\* the first start_idx of the call in `spec` whose match succeeds, -1 for
\* none, and the tokens of the pattern from there: the matched context
MatchedStart ==
    LET matched == {i \in 0..(Len(spec.pattern) - 4) : CallMatch(i)[1] # Null}
    IN IF matched = {} THEN -1
       ELSE CHOOSE i \in matched : \A j \in matched : i <= j
MatchedContext == SubSeq(spec.pattern, MatchedStart + 1, Len(spec.pattern))

\* the tokens other than -1 that follow ctx somewhere in the sequence, and
\* the one that does so most often (the lower token among equals)
Continuations(ctx) ==
    {t \in {seqs[i] : i \in DOMAIN seqs} \ {-1} : Occurrences(ctx \o <<t>>) > 0}
MostFrequent(ctx) ==
    CHOOSE t \in Continuations(ctx) :
        \A u \in Continuations(ctx) :
            \/ Occurrences(ctx \o <<t>>) > Occurrences(ctx \o <<u>>)
            \/ Occurrences(ctx \o <<t>>) = Occurrences(ctx \o <<u>>) /\ t <= u

\* a path-mode call with min_token_prob 0 has returned, on a tree with a root
PathCallReturned ==
    /\ spec # NoCall /\ spec.outcome = "returned" /\ nodes # <<>>
    /\ ~spec.use_tree_spec
    /\ spec.min_token_prob = <<0, 1>>

\* C21: in path mode, when the matched context is followed by different
\* tokens in the sequence, the first proposed token is the one that follows
\* it most often, the lower token among those that do so equally often.
C21_MostFrequentContinuationFirst ==
    (PathCallReturned /\ MatchedStart # -1
        /\ Cardinality(Continuations(MatchedContext)) >= 2) =>
        /\ spec.result.token_ids # <<>>
        /\ spec.result.token_ids[1] = MostFrequent(MatchedContext)

\* in the tree of prompt 9 and responses 1 2 3 4 6, 1 2 3 4 7, 1 2 3 4 7 the
\* context 1 2 3 4 is followed by 7 twice and by 6 once; the children 6 and 7
\* of its node both have count 1, and the call has proposed 6
C21_Witness ==
    /\ PathCallReturned
    /\ spec.pattern = <<1, 2, 3, 4>>
    /\ Occurrences(<<1, 2, 3, 4, 7>>) = 2
    /\ Occurrences(<<1, 2, 3, 4, 6>>) = 1
    /\ LET node == CallMatch(0)[1]
       IN /\ DOMAIN nodes[node].children = {6, 7}
          /\ nodes[nodes[node].children[6]].count = 1
          /\ nodes[nodes[node].children[7]].count = 1
    /\ spec.result.token_ids[1] = 6

\* the start_idx the call in `spec` has returned from: the first one whose
\* match succeeds with a candidate of a score above 0, -1 for none; and the
\* tokens of the pattern from there
UsedStart ==
    LET usable == {i \in 0..(Len(spec.pattern) - 4) : Usable(i)}
    IN IF usable = {} THEN -1
       ELSE CHOOSE i \in usable : \A j \in usable : i <= j
UsedContext == SubSeq(spec.pattern, UsedStart + 1, Len(spec.pattern))

\* for a ctx that occurs once in the sequence: the tokens that follow it
\* there, at most max of them and none from the next -1 on
Following(ctx, max) ==
    LET k == CHOOSE i \in 1..Len(seqs) : SubSeq(seqs, i, i + Len(ctx) - 1) = ctx
        p == k + Len(ctx)
        n == CHOOSE m \in 0..max :
                 /\ \A j \in 0..(m - 1) : p + j <= Len(seqs) /\ seqs[p + j] # -1
                 /\ m = max \/ p + m > Len(seqs) \/ seqs[p + m] = -1
    IN SubSeq(seqs, p, p + n - 1)

\* C22: a path-mode call with min_token_prob 0 returns at most max tokens,
\* none of them -1, and the suffix of the pattern it matched followed by the
\* returned tokens is a contiguous part of the composite sequence; when that
\* suffix occurs once in the sequence, the returned tokens are exactly those
\* that follow it there, up to max tokens and up to the next -1.
C22_PathFollowsSequence ==
    [](PathCallReturned =>
        /\ Len(spec.result.token_ids) <= spec.max_spec_tokens
        /\ \A i \in DOMAIN spec.result.token_ids : spec.result.token_ids[i] # -1
        /\ spec.result.token_ids # <<>> =>
              /\ UsedStart # -1
              /\ Occurrences(UsedContext \o spec.result.token_ids) > 0
        /\ (UsedStart # -1 /\ Occurrences(UsedContext) = 1) =>
              spec.result.token_ids = Following(UsedContext, spec.max_spec_tokens)
        /\ (MatchedStart # -1 /\ Occurrences(MatchedContext) = 1
               /\ Following(MatchedContext, spec.max_spec_tokens) # <<>>) =>
              spec.result.token_ids = Following(MatchedContext, spec.max_spec_tokens))

\* the tree of prompt 10 11 12 and response 20 21 22 23 has been asked for
\* the pattern 10 11 12 20 in path mode and has returned 21 22 23
C22_Witness ==
    /\ PathCallReturned
    /\ request = [prompt |-> <<10, 11, 12>>, responses |-> <<<<20, 21, 22, 23>>>>]
    /\ spec.pattern = <<10, 11, 12, 20>>
    /\ spec.max_spec_tokens = SPEC_MAX_LEN
    /\ spec.result.token_ids = <<21, 22, 23>>

\* the last k tokens of the prompt of the request, and the first tokens of
\* its responses
PromptTail(k) ==
    SubSeq(request.prompt, Len(request.prompt) - k + 1, Len(request.prompt))
FirstResponseTokens ==
    {request.responses[i][1] :
        i \in {j \in DOMAIN request.responses : request.responses[j] # <<>>}}

\* C23: on the tree of a prompt of four or more tokens with a non-empty
\* response, a path-mode call with min_token_prob 0 whose pattern is the last
\* four or the last five tokens of the prompt returns a non-empty proposal
\* that starts with the first token of one of the responses.
C23_PromptTailProposesResponse ==
    (/\ PathCallReturned
     /\ Len(request.prompt) >= 4
     /\ FirstResponseTokens # {}
     /\ \E k \in {4, 5} : k <= Len(request.prompt) /\ spec.pattern = PromptTail(k)) =>
        /\ spec.result.token_ids # <<>>
        /\ spec.result.token_ids[1] \in FirstResponseTokens

\* the tree of prompt 1 2 3 4 and responses 5 and 6 7 has been asked for
\* the pattern 1 2 3 4 in path mode: the context is followed once by each
\* of -1, 5 and 6, and nothing has been proposed
C23_Witness ==
    /\ PathCallReturned
    /\ request = [prompt |-> <<1, 2, 3, 4>>, responses |-> <<<<5>>, <<6, 7>>>>]
    /\ spec.pattern = PromptTail(4)
    /\ Occurrences(<<1, 2, 3, 4, -1>>) = 1
    /\ Occurrences(<<1, 2, 3, 4, 5>>) = 1
    /\ Occurrences(<<1, 2, 3, 4, 6>>) = 1
    /\ spec.result.token_ids = <<>>

\* the processes between their acquisition of the mutex and the end of its
\* scope: a handler thread at its find/replace or its emplace, the client at
\* its lookups
InLockScope ==
    {t \in DOMAIN upc : upc[t] \in {"swap", "emplace"}}
        \cup (IF qpc = "fetch_locked" THEN {Client} ELSE {})

C25_DestroyReturnsAll ==
    tpc = "destroyed" => arena = NoMemory

\* the tree of prompt 10 11 12 and response 20 21 22 23 has been built and
\* destroyed: the object, the bulk block and the sequence storage are back
\* in the segment, the entries of the children maps are not
C25_Witness ==
    /\ tpc = "destroyed"
    /\ request = [prompt |-> <<10, 11, 12>>, responses |-> <<<<20, 21, 22, 23>>>>]
    /\ arena.SuffixTree = 0 /\ arena.memory_block = 0 /\ arena._seqs = 0
    /\ arena.children > 0

\* the tree a second UpdateCache call builds from the same request
SecondTokens == CompositeTokens(request)
SecondTree == SuffixTree_extend(SecondTokens)

C27_AtMostSpecLen ==
    (spec # NoCall /\ spec.outcome = "returned") =>
        /\ Len(spec.result.token_ids) <= spec.max_spec_tokens
        /\ Len(spec.result.token_ids) <= SPEC_MAX_LEN
        /\ Len(spec.result.parents) = Len(spec.result.token_ids)
        /\ Len(spec.result.probs) = Len(spec.result.token_ids)

\* a tree-mode call with the maximum 16 has returned exactly 16 tokens from a
\* tree that holds more
C27_Witness ==
    /\ spec # NoCall /\ spec.outcome = "returned"
    /\ spec.use_tree_spec
    /\ spec.max_spec_tokens = SPEC_MAX_LEN
    /\ Len(spec.result.token_ids) = SPEC_MAX_LEN
    /\ Len(seqs) > SPEC_MAX_LEN

C29_NoFetchOnNullHandles ==
    (qpc \in {"fetch_lock", "fetch_locked", "crashed"} \/ last.op = "fetch") =>
        shared_memory_segment_ /\ shared_tree_map_

\* the SuffixCache was constructed while the segment had no "tree_map" yet;
\* the server has finished Initialize since, and a fetch of the client has
\* crashed on the null segment pointer
C29_Witness ==
    /\ qpc = "crashed"
    /\ ~shared_memory_segment_ /\ ~shared_tree_map_
    /\ shm = {Segment} \cup NamedObjects
    /\ last.op = "fetch" /\ last.status = "crash"

\* the pairs of the calls started so far
StartedPairs ==
    {<<call_data_list[k].request_index, call_data_list[k].server_index>> :
        k \in DOMAIN call_data_list}

\* what holds when an update call has returned: one call was started for
\* every pair of a request and an endpoint and for nothing else, every call
\* has finished and was handed out by cq.Next, every endpoint that is up has
\* received every request once and the others nothing, and the calls that
\* did not succeed were reported and nothing else happened to them
ReturnedAfterAll ==
    /\ Len(call_data_list) = requests_size * Cardinality(stubs_)
    /\ StartedPairs = (0..(requests_size - 1)) \X stubs_
    /\ \A k \in DOMAIN call_data_list : call_data_list[k].state = "done"
    /\ cq = {}
    /\ completed = requests_size * Cardinality(stubs_)
    /\ \A pair \in DOMAIN received :
          received[pair] = IF pair[1] \in live /\ pair[2] < requests_size
                           THEN 1 ELSE 0
    /\ logged = {k \in DOMAIN call_data_list : call_data_list[k].status # "ok"}

\* C30: no pair of a request and an endpoint is ever given two calls; when
\* the update call has returned, ReturnedAfterAll holds; and an update call
\* that has begun returns.
C30_FanOutCompletes ==
    /\ [](Cardinality(StartedPairs) = Len(call_data_list))
    /\ [](fpc = "returned" => ReturnedAfterAll)
    /\ (fpc # "idle" ~> fpc = "returned")

\* an update call with two requests has returned while endpoint 0 was down:
\* its two calls were reported and no other, endpoint 1 holds both requests
C30_Witness ==
    /\ fpc = "returned"
    /\ requests_size = 2
    /\ live = {1}
    /\ logged = {k \in DOMAIN call_data_list : call_data_list[k].server_index = 0}
    /\ Cardinality(logged) = 2
    /\ \A r \in {0, 1} : received[<<1, r>>] = 1 /\ received[<<0, r>>] = 0

\* ---- C31
\* the requests prepared before request k of the history for the same
\* prompt_hash, and the greatest prompt size among them
EarlierUploads(k) ==
    {j \in 1..(k - 1) : uploads[j].prompt_hash = uploads[k].prompt_hash}
GreatestUploaded(k) ==
    LET sizes == {Len(uploads[j].input) : j \in EarlierUploads(k)}
    IN CHOOSE n \in sizes : \A m \in sizes : m <= n
\* the first request of the history made from the same prompt as request k
FirstUploadOf(k) ==
    CHOOSE j \in 1..k : /\ uploads[j].input = uploads[k].input
                         /\ \A i \in 1..(j - 1) : uploads[i].input # uploads[k].input
\* request k belongs to a later call than some request for its prompt_hash
NextCallFor(k) ==
    \E j \in EarlierUploads(k) : uploads[j].call < uploads[k].call

\* C31: for every request of a call after the first for its prompt_hash, the
\* length read from the map is the greatest prompt size uploaded for that
\* hash so far, the prompt tokens sent are exactly the tokens of the prompt
\* beyond that length, and they are not more than the first request for the
\* same prompt sent.
C31_SendsOnlyBeyondUploaded ==
    \A k \in DOMAIN uploads :
        NextCallFor(k) =>
            /\ uploads[k].uploaded_len = GreatestUploaded(k)
            /\ uploads[k].prompt = SubSeq(uploads[k].input, GreatestUploaded(k) + 1,
                                         Len(uploads[k].input))
            /\ Len(uploads[k].prompt) <= Len(uploads[FirstUploadOf(k)].prompt)

\* the prompt 1 2 with prompt_length 2 has been sent in two calls: the map
\* held 2 for its hash at the second call, and the second request carries
\* both tokens again
C31_Witness ==
    /\ Len(uploads) = 2
    /\ \A k \in {1, 2} : /\ uploads[k].input = <<1, 2>>
                         /\ uploads[k].prompt_length = 2
                         /\ uploads[k].call = k
    /\ uploads[2].uploaded_len = 2
    /\ uploads[2].prompt = <<1, 2>>
    /\ prompt_hash_to_uploaded_len_[uploads[2].prompt_hash] = 2

\* ---- C32
\* the places (node, key) of the children maps that hold the node v
ChildPlaces(v) ==
    {pk \in UNION {{<<p, k>> : k \in DOMAIN nodes[p].children} : p \in DOMAIN nodes} :
        nodes[pk[1]].children[pk[2]] = v}

\* C32: while the tree has a root, the root is its own suffix link, has no
\* parent and is no node's child, and every other node is held by exactly
\* one children map, the one of its `parent`, under the key seq[start], the
\* first token of its edge; so the edges out of a node start with different
\* tokens.
C32_OneParentKeyedByFirstToken ==
    [](nodes # <<>> =>
          /\ nodes[Root].suffix_link = Root
          /\ nodes[Root].parent = Null
          /\ ChildPlaces(Root) = {}
          /\ \A v \in DOMAIN nodes \ {Root} :
                 /\ nodes[v].parent \in DOMAIN nodes
                 /\ ChildPlaces(v) = {<<nodes[v].parent, At(seqs, nodes[v].start)>>})

\* a built tree in which an edge below an inner node was split: an inner
\* node with two children hangs under another inner node
C32_Witness ==
    /\ tpc = "built"
    /\ \E v \in DOMAIN nodes \ {Root} :
          /\ nodes[v].parent # Root
          /\ Cardinality(DOMAIN nodes[v].children) >= 2
          /\ ChildPlaces(v) = {<<nodes[v].parent, At(seqs, nodes[v].start)>>}

\* ---- C33
\* the product of count(child)/count(parent) over the nodes entered on the
\* way down from the node `from` to the node `to` below it
RECURSIVE BranchProb(_, _)
BranchProb(from, to) ==
    IF to = from THEN <<1, 1>>
    ELSE FracMul(BranchProb(from, nodes[to].parent),
                 nodes[to].count, nodes[nodes[to].parent].count)
\* the node on whose edge the i-th returned token lies: the end of the
\* match of the used context followed by the first i returned tokens
TokenNode(i) ==
    _match_pattern(nodes, seqs, UsedContext \o SubSeq(spec.result.token_ids, 1, i), 0)[1]
RECURSIVE SumProbs(_)
SumProbs(probs) ==
    IF probs = <<>> THEN <<0, 1>> ELSE FracAdd(SumProbs(Tail(probs)), Head(probs))

\* C33: the Candidate a path-mode call returns is a linear path of at most
\* max tokens: parents[0] = -1 and parents[i] = i - 1, probs[i] is the
\* product of count(child)/count(parent) over the nodes entered between the
\* end of the match and token i (1 when none was entered), no emitted
\* probability is below min_token_prob, and score is the sum of probs.
C33_LinearPathRunningProduct ==
    []((spec # NoCall /\ spec.outcome = "returned" /\ nodes # <<>>
           /\ ~spec.use_tree_spec) =>
          LET ret == spec.result
              n == Len(ret.token_ids)
          IN /\ Len(ret.parents) = n /\ Len(ret.probs) = n
             /\ n <= spec.max_spec_tokens
             /\ ret.score = SumProbs(ret.probs)
             /\ \A i \in 1..n :
                    /\ ret.parents[i] = i - 2
                    /\ FracGe(ret.probs[i], spec.min_token_prob)
                    /\ TokenNode(i) # Null
                    /\ ret.probs[i] = BranchProb(CallMatch(UsedStart)[1], TokenNode(i)))

\* a path-mode call with min_token_prob 1/2 has returned three tokens or
\* more, the first ones with probability 1 and the last one, behind a
\* branch, with probability 1/2
C33_Witness ==
    /\ spec # NoCall /\ spec.outcome = "returned" /\ nodes # <<>>
    /\ ~spec.use_tree_spec
    /\ spec.min_token_prob = <<1, 2>>
    /\ Len(spec.result.token_ids) >= 3
    /\ spec.result.probs[1] = <<1, 1>>
    /\ spec.result.probs[Len(spec.result.probs)] = <<1, 2>>
    /\ TokenNode(Len(spec.result.token_ids)) # CallMatch(UsedStart)[1]
    /\ spec.result.score = SumProbs(spec.result.probs)

\* ---- C34
\* the tokens from the first token of the returned tree down to its token
\* i; tokens and parents are counted from 0 as in the Candidate, -1 is the
\* place in front of the first token
RECURSIVE TokenPath(_)
TokenPath(i) ==
    IF i = -1 THEN <<>>
    ELSE TokenPath(At(spec.result.parents, i)) \o <<At(spec.result.token_ids, i)>>
\* the node in whose edge the context ctx followed by the tokens down to i
\* and by the tokens more ends, Null when the tree does not hold that string
PathNode(ctx, i, more) == _match_pattern(nodes, seqs, ctx \o TokenPath(i) \o more, 0)[1]
\* the probability of the token c as a continuation of the place i, 0 when
\* the tree has no such continuation
ContinuationProb(ctx, from, i, c) ==
    LET node == PathNode(ctx, i, <<c>>)
    IN IF node = Null THEN <<0, 1>> ELSE BranchProb(from, node)
Emitted(i, c) ==
    \E j \in 0..(Len(spec.result.token_ids) - 1) :
        At(spec.result.parents, j) = i /\ At(spec.result.token_ids, j) = c
TreeCallReturned ==
    /\ spec # NoCall /\ spec.outcome = "returned" /\ nodes # <<>>
    /\ spec.use_tree_spec
    /\ spec.result.token_ids # <<>>

\* C34: the Candidate a tree-mode call returns is a tree of at most max
\* tokens: the parent of a token is -1 or a token emitted before it, a
\* token continues the path of its parent in the suffix tree and no two
\* tokens continue the same parent with the same token; the probabilities
\* are the products of the count ratios on the way down, they do not rise
\* from one emitted token to the next and none is below min_token_prob. A
\* continuation of a place of the tree that was not emitted has less than
\* min_token_prob, or max tokens were emitted and it has no more than the
\* last of them.
C34_WellFormedBestFirstTree ==
    [](TreeCallReturned =>
          LET ret == spec.result
              n == Len(ret.token_ids)
              ctx == UsedContext
              from == CallMatch(UsedStart)[1]
          IN /\ Len(ret.parents) = n /\ Len(ret.probs) = n
             /\ n <= spec.max_spec_tokens
             /\ ret.score = SumProbs(ret.probs)
             /\ \A i \in 0..(n - 1) :
                    /\ -1 <= At(ret.parents, i) /\ At(ret.parents, i) < i
                    /\ PathNode(ctx, i, <<>>) # Null
                    /\ At(ret.probs, i) = BranchProb(from, PathNode(ctx, i, <<>>))
                    /\ FracGe(At(ret.probs, i), spec.min_token_prob)
                    /\ \A j \in 0..(i - 1) :
                           /\ FracGe(At(ret.probs, j), At(ret.probs, i))
                           /\ At(ret.parents, j) = At(ret.parents, i)
                                  => At(ret.token_ids, j) # At(ret.token_ids, i)
             /\ \A i \in -1..(n - 1) : \A c \in {seqs[k] : k \in DOMAIN seqs} :
                    LET prob == ContinuationProb(ctx, from, i, c)
                    IN (prob # <<0, 1>> /\ ~Emitted(i, c)) =>
                          \/ ~FracGe(prob, spec.min_token_prob)
                          \/ /\ n = spec.max_spec_tokens
                             /\ FracGe(At(ret.probs, n - 1), prob))

\* a tree-mode call with min_token_prob 1/2 has returned fewer than max
\* tokens with a branch in them: two tokens of probability 1/2 continue the
\* same parent, behind a token of probability 1
C34_Witness ==
    /\ TreeCallReturned
    /\ spec.min_token_prob = <<1, 2>>
    /\ Len(spec.result.token_ids) < spec.max_spec_tokens
    /\ \E i, j \in 1..Len(spec.result.token_ids) :
          /\ i < j
          /\ spec.result.parents[i] = spec.result.parents[j]
          /\ spec.result.parents[i] >= 0
          /\ spec.result.probs[i] = <<1, 2>> /\ spec.result.probs[j] = <<1, 2>>
          /\ spec.result.probs[1] = <<1, 1>>
    /\ \A i \in -1..(Len(spec.result.token_ids) - 1) :
          \A c \in {seqs[k] : k \in DOMAIN seqs} :
              FracGe(ContinuationProb(UsedContext, CallMatch(UsedStart)[1], i, c),
                     spec.min_token_prob) => Emitted(i, c)

\* ---- C35
\* the token strings a built tree is probed with: every string of up to
\* MaxProbeLen tokens over the tokens of the sequence and a token it does
\* not hold, and the patterns of the speculate calls
Probes ==
    UNION {[1..n -> {seqs[k] : k \in DOMAIN seqs} \cup OtherTokens] : n \in 0..MaxProbeLen}
        \cup Patterns(seqs)
\* the token string occurs as a contiguous part of the sequence
Occurs(p) == \E k \in 1..(Len(seqs) - Len(p) + 1) : SubSeq(seqs, k, k + Len(p) - 1) = p
\* the built tree with a root, between two speculate calls
TreeAtRest == tpc = "built" /\ spec = NoCall /\ nodes # <<>>

\* C35: on a built tree with a root, _match_pattern(pattern, start_idx)
\* returns a node exactly when the tokens of the pattern from start_idx on
\* occur as a contiguous part of the sequence of the tree, for every
\* start_idx from 0 to the length of the pattern.
C35_MatchIffOccurs ==
    [](TreeAtRest =>
          \A p \in Probes : \A start_idx \in 0..Len(p) :
              (_match_pattern(nodes, seqs, p, start_idx)[1] # Null)
                  <=> Occurs(SubSeq(p, start_idx + 1, Len(p))))

\* the tree of prompt 1 2 3 4 and responses 5 and 6 7 is built: 4 -1 1
\* ends in a node below the root, 3 4 6 in a node reached over an inner
\* node, and 4 5 6, 3 4 7 and 1 1 made of its tokens match nothing
C35_Witness ==
    /\ TreeAtRest
    /\ request = [prompt |-> <<1, 2, 3, 4>>, responses |-> <<<<5>>, <<6, 7>>>>]
    /\ _match_pattern(nodes, seqs, <<4, -1, 1>>, 0)[1] \notin {Null, Root}
    /\ LET m == _match_pattern(nodes, seqs, <<3, 4, 6>>, 0)
       IN m[1] # Null /\ nodes[m[1]].parent # Root
    /\ _match_pattern(nodes, seqs, <<4, 5, 6>>, 0)[1] = Null
    /\ _match_pattern(nodes, seqs, <<3, 4, 7>>, 0)[1] = Null
    /\ _match_pattern(nodes, seqs, <<1, 1>>, 0)[1] = Null
    /\ {<<4, -1, 1>>, <<3, 4, 6>>, <<4, 5, 6>>, <<3, 4, 7>>, <<1, 1>>} \subseteq Probes

\* ---- C36
\* C36: the tree of every request, once extend() has returned and the tree
\* is ready for the registry, has a root node, and no speculate call on it
\* ends in the dereference of a null root.
C36_BuiltTreeHasRoot ==
    /\ tpc = "built" => nodes # <<>>
    /\ spec # NoCall => spec.outcome # "crash"

\* the tree of the request with an empty prompt and no responses has no
\* root, and a speculate call with a pattern of four tokens has
\* dereferenced the null _root
C36_Witness ==
    /\ request = [prompt |-> <<>>, responses |-> <<>>]
    /\ tpc = "built"
    /\ nodes = <<>>
    /\ spec # NoCall
    /\ Len(spec.pattern) = 4
    /\ spec.outcome = "crash"

\* ---------------------------------------------------------------------------
\* C37: whenever no QueryAPI operation is running (every call of
\* fetch_responses_by_prompts_batch, update_spec_len, evict_responses and
\* speculate has returned or thrown), req_id_to_responses_ and
\* req_id_to_spec_len_ have the same keys: a req_id has a speculation length
\* exactly when it has a cached tree_ref, null or not. Inside a fetch, between
\* the first pass and the lookups, the new req_ids have a length and no
\* tree_ref yet.
C37_SameKeys ==
    [](qpc = "idle" =>
          DOMAIN req_id_to_responses_ = DOMAIN req_id_to_spec_len_)

\* reached: request 1 was fetched before any tree was published (null
\* tree_ref, a length), request 2 was fetched and has just been evicted
C37_Witness ==
    /\ qpc = "idle"
    /\ last.op = "evict_responses" /\ last.req_id = 2 /\ last.before # 0
    /\ DOMAIN req_id_to_responses_ = {1}
    /\ DOMAIN req_id_to_spec_len_ = {1}
    /\ req_id_to_responses_[1] = Null

\* ---------------------------------------------------------------------------
\* C38: Shutdown can run more than once: no call of Shutdown reads through a
\* null segment_ (a call made when segment_ is null, after an earlier
\* Shutdown, after a failed Initialize or without any Initialize, returns
\* without having done anything), and no tree is destroyed twice.
C38_RepeatedShutdownIsNoOp ==
    /\ \A i \in DOMAIN server_calls :
          server_calls[i] \notin
              {"Shutdown: " \o outcome : outcome \in NullSegmentBaseOutcomes}
    /\ \A T \in TreeIds : Len(destroyedBy[T]) <= 1

\* reached: the server was initialized, published a tree and shut down, which
\* destroyed the tree; the destructor's Shutdown then read the base address
\* through the null segment_ and the process crashed
C38_Witness ==
    /\ server_calls = <<"Initialize", "Shutdown", "Shutdown: crash">>
    /\ ~segment_
    /\ \E T \in TreeIds : destroyedBy[T] = <<Drain>>

\* ---------------------------------------------------------------------------
\* the nodes of a tree reachable from its root, each by the tokens from the
\* root to the end of its edge, with its count, its start, its length and the
\* tokens of its children
TreeShape(ns, sq) ==
    IF ns = <<>> THEN {}
    ELSE {<<PathLabel(ns, sq, v, EdgeLength(ns, sq, v)), ns[v].count,
            ns[v].start, ns[v].length, DOMAIN ns[v].children>> :
             v \in Visited(ns, Root)}

\* the tree a call of extend_from_local has left equals the tree ns of the
\* same tokens in its nodes, its counts and the results of speculate
SameTreeAs(ns) ==
    /\ TreeShape(nodes, seqs) = TreeShape(ns, tokens)
    /\ seqs = tokens
    /\ ns # <<>> =>
          \A pattern \in Patterns(tokens), max_spec_tokens \in MaxSpecTokens,
             min_token_prob \in MinTokenProbs, use_tree_spec \in BOOLEAN :
             SuffixTree_speculate(nodes, seqs, pattern, max_spec_tokens,
                                  min_token_prob, use_tree_spec)
               = SuffixTree_speculate(ns, tokens, pattern, max_spec_tokens,
                                      min_token_prob, use_tree_spec)

\* C39: for every token vector extend_from_local runs to its end without
\* following a null suffix link (and without any other use of a null or
\* freed pointer), and the tree it leaves has the nodes, the counts and the
\* speculate results of the tree extend builds from the same tokens.
C39_LocalBuildAsExtend ==
    /\ tpc \notin {"crashed", "undefined"}
    /\ local_tree.undefined = {}
    /\ tpc = "built" => SameTreeAs(SuffixTree_extend(tokens))

\* reached: on the tokens 1 2 2 1 2 3 the local build, its freed nodes left
\* aside, has followed the suffix link of the node `2`, which was never set,
\* and has crashed on the null active node
C39_Witness ==
    /\ tokens = <<1, 2, 2, 1, 2, 3>>
    /\ tpc = "crashed"
    /\ "null suffix link" \in local_tree.undefined
    /\ local_tree.pos = 6

====
